---------------------------- MODULE Spec2Model ----------------------------
(***************************************************************************)
(* Workspace file gateway of the OpenClaw gateway process:                 *)
(* handleWorkspaceHttpRequest (src/unnamed/part_003) over a model of the   *)
(* node:path, node:fs and Buffer calls it makes.                           *)
(*                                                                         *)
(* Strings, paths, request bodies and file contents are sequences of       *)
(* character codes (a byte of a Buffer, a code point of a JS string).      *)
(***************************************************************************)
EXTENDS Integers, Sequences, FiniteSets, TLC

(***************************************************************************)
(* Characters.  Printable lists ASCII 32..126 in code order, so Code(c) is *)
(* the character code of the one-character string c (the grave accent,    *)
(* code 96, is held by a placeholder and never used).                      *)
(***************************************************************************)
Printable ==
  << " ", "!", "\"", "#", "$", "%", "&", "'", "(", ")", "*", "+", ",", "-", ".", "/",
     "0", "1", "2", "3", "4", "5", "6", "7", "8", "9", ":", ";", "<", "=", ">", "?",
     "@", "A", "B", "C", "D", "E", "F", "G", "H", "I", "J", "K", "L", "M", "N", "O",
     "P", "Q", "R", "S", "T", "U", "V", "W", "X", "Y", "Z", "[", "\\", "]", "^", "_",
     "grave", "a", "b", "c", "d", "e", "f", "g", "h", "i", "j", "k", "l", "m", "n", "o",
     "p", "q", "r", "s", "t", "u", "v", "w", "x", "y", "z", "{", "|", "}", "~" >>

Code(c) == 31 + (CHOOSE i \in 1..Len(Printable) : Printable[i] = c)

\* The string literal written as a tuple of one-character strings.
Str(t) == [i \in 1..Len(t) |-> Code(t[i])]

SLASH == Code("/")
DOT == Code(".")
PERCENT == Code("%")
QUOTE == Code("\"")
DASH == Code("-")
CR == 13
LF == 10
CRLF == <<CR, LF>>

(***************************************************************************)
(* String.prototype methods used by the handler.                           *)
(***************************************************************************)
\* s.slice(from), 0-based
SliceFrom(s, from) == SubSeq(s, from + 1, Len(s))

\* s.slice(from, to), 0-based, to exclusive; an end before the start is ""
Slice(s, from, to) == SubSeq(s, from + 1, to)

\* whether pat occurs in s at 0-based offset i
MatchAt(s, pat, i) ==
  /\ i >= 0
  /\ i + Len(pat) <= Len(s)
  /\ \A k \in 1..Len(pat) : s[i + k] = pat[k]

\* s.startsWith(pat): a comparison of characters, not of path segments
StartsWith(s, pat) == MatchAt(s, pat, 0)

\* the 0-based offsets at which pat occurs in s
Hits(s, pat) == {i \in 0..(Len(s) - Len(pat)) : MatchAt(s, pat, i)}

MinOr(S, none) == IF S = {} THEN none ELSE CHOOSE i \in S : \A j \in S : i <= j

MaxOr(S, none) == IF S = {} THEN none ELSE CHOOSE i \in S : \A j \in S : i >= j

\* s.indexOf(pat): the first 0-based offset, -1 when absent
IndexOf(s, pat) == MinOr(Hits(s, pat), -1)

\* s.lastIndexOf(pat): the last 0-based offset, -1 when absent
LastIndexOf(s, pat) == MaxOr(Hits(s, pat), -1)

\* s.includes(pat)
Includes(s, pat) == IndexOf(s, pat) >= 0

\* s.split(sep) for a non-empty separator
RECURSIVE Split(_, _)
SplitAt(s, sep, i) ==
  IF i < 0 THEN <<s>>
  ELSE <<Slice(s, 0, i)>> \o Split(SliceFrom(s, i + Len(sep)), sep)

Split(s, sep) == SplitAt(s, sep, IndexOf(s, sep))

\* s.replace(/^\/+/, "")
RECURSIVE StripLeadingSlashes(_)
StripLeadingSlashes(s) ==
  IF s # <<>> /\ s[1] = SLASH THEN StripLeadingSlashes(Tail(s)) ELSE s

TEXT_PREFIX == Str(<<"t", "e", "x", "t", "/">>)

\* s.replace(/^text\//, "")
StripTextPrefix(s) ==
  IF StartsWith(s, TEXT_PREFIX) THEN SliceFrom(s, Len(TEXT_PREFIX)) ELSE s

(***************************************************************************)
(* node:path (POSIX).                                                      *)
(***************************************************************************)
DOTDOT == <<DOT, DOT>>

\* normalizeString: "" and "." segments are dropped, ".." removes the
\* segment before it and is dropped at the root of an absolute path
RECURSIVE NormalizeSegments(_, _)
NormalizeSegments(segs, acc) ==
  IF segs = <<>> THEN acc
  ELSE LET s == Head(segs)
       IN  IF s = <<>> \/ s = <<DOT>> THEN NormalizeSegments(Tail(segs), acc)
           ELSE IF s = DOTDOT
                THEN NormalizeSegments(Tail(segs),
                                       IF acc = <<>> THEN acc
                                       ELSE SubSeq(acc, 1, Len(acc) - 1))
                ELSE NormalizeSegments(Tail(segs), Append(acc, s))

RECURSIVE JoinSegments(_)
JoinSegments(segs) ==
  IF segs = <<>> THEN <<>>
  ELSE <<SLASH>> \o Head(segs) \o JoinSegments(Tail(segs))

\* the segments of an absolute path, which is how the filesystem names a node
Segments(p) == NormalizeSegments(Split(p, <<SLASH>>), <<>>)

EndsWithSlash(p) == p # <<>> /\ p[Len(p)] = SLASH

NormalizeTo(segs, trailing) ==
  IF segs = <<>> THEN <<SLASH>>
  ELSE JoinSegments(segs) \o (IF trailing THEN <<SLASH>> ELSE <<>>)

\* path.normalize of an absolute path: a trailing separator is kept
Normalize(p) == NormalizeTo(Segments(p), EndsWithSlash(p))

\* path.join(a, b) with a absolute: zero-length arguments are skipped
PathJoin(a, b) == Normalize(IF b = <<>> THEN a ELSE a \o <<SLASH>> \o b)

(***************************************************************************)
(* UTF-8.  buf.toString() and readFileSync(p, "utf8") decode with every    *)
(* ill-formed or truncated sequence replaced by U+FFFD;                    *)
(* writeFileSync(p, str, "utf8") encodes.  Sequences of one, two and three *)
(* bytes are modelled (code points below U+10000).                         *)
(***************************************************************************)
REPLACEMENT == 65533

IsCont(b) == b >= 128 /\ b <= 191

RECURSIVE Utf8Decode(_)
Utf8Decode(b) ==
  IF b = <<>> THEN <<>>
  ELSE LET b1 == b[1]
       IN  IF b1 < 128 THEN <<b1>> \o Utf8Decode(Tail(b))
           ELSE IF b1 >= 194 /\ b1 <= 223
           THEN IF Len(b) >= 2 /\ IsCont(b[2])
                THEN <<(b1 - 192) * 64 + (b[2] - 128)>> \o Utf8Decode(SliceFrom(b, 2))
                ELSE <<REPLACEMENT>> \o Utf8Decode(Tail(b))
           ELSE IF b1 >= 224 /\ b1 <= 239
           THEN IF Len(b) >= 3 /\ IsCont(b[2]) /\ IsCont(b[3])
                THEN <<(b1 - 224) * 4096 + (b[2] - 128) * 64 + (b[3] - 128)>>
                       \o Utf8Decode(SliceFrom(b, 3))
                ELSE IF Len(b) >= 2 /\ IsCont(b[2])
                THEN <<REPLACEMENT>> \o Utf8Decode(SliceFrom(b, 2))
                ELSE <<REPLACEMENT>> \o Utf8Decode(Tail(b))
           ELSE <<REPLACEMENT>> \o Utf8Decode(Tail(b))

RECURSIVE Utf8Encode(_)
Utf8Encode(s) ==
  IF s = <<>> THEN <<>>
  ELSE LET c == s[1]
       IN  (IF c < 128 THEN <<c>>
            ELSE IF c < 2048 THEN <<192 + (c \div 64), 128 + (c % 64)>>
            ELSE <<224 + (c \div 4096), 128 + ((c \div 64) % 64), 128 + (c % 64)>>)
           \o Utf8Encode(Tail(s))

(***************************************************************************)
(* decodeURIComponent.  Every %XX stands for the byte XX, and the bytes    *)
(* are read as UTF-8; a "%" not followed by two hex digits, or bytes that  *)
(* are no well-formed UTF-8, throw URIError.  The characters of a          *)
(* url.pathname outside its escapes are ASCII.                             *)
(***************************************************************************)
HexDigits == Str(<<"0", "1", "2", "3", "4", "5", "6", "7", "8", "9",
                   "A", "B", "C", "D", "E", "F">>)

HexDigitsLower == Str(<<"0", "1", "2", "3", "4", "5", "6", "7", "8", "9",
                        "a", "b", "c", "d", "e", "f">>)

IsHex(c) == \E i \in 1..Len(HexDigits) : HexDigits[i] = c \/ HexDigitsLower[i] = c

HexVal(c) ==
  (CHOOSE i \in 1..Len(HexDigits) : HexDigits[i] = c \/ HexDigitsLower[i] = c) - 1

RECURSIVE EscapesOk(_)
EscapesOk(s) ==
  IF s = <<>> THEN TRUE
  ELSE IF s[1] # PERCENT THEN EscapesOk(Tail(s))
  ELSE Len(s) >= 3 /\ IsHex(s[2]) /\ IsHex(s[3]) /\ EscapesOk(SliceFrom(s, 3))

\* the bytes a well-escaped s stands for
RECURSIVE Unescape(_)
Unescape(s) ==
  IF s = <<>> THEN <<>>
  ELSE IF s[1] # PERCENT THEN <<s[1]>> \o Unescape(Tail(s))
  ELSE <<16 * HexVal(s[2]) + HexVal(s[3])>> \o Unescape(SliceFrom(s, 3))

WellFormedUtf8(b) == Utf8Encode(Utf8Decode(b)) = b

\* decodeURIComponent(s) returns
DecodeOk(s) == EscapesOk(s) /\ WellFormedUtf8(Unescape(s))

DecodeURIComponent(s) == Utf8Decode(Unescape(s))

(***************************************************************************)
(* Buffer <-> string conversions in latin1: buf.toString("binary") and     *)
(* writeFileSync(p, str, "binary").                                        *)
(***************************************************************************)
\* buf.toString("binary"): each byte is the code unit of the same value
Latin1Decode(b) == [i \in 1..Len(b) |-> b[i]]

\* writeFileSync(p, str, "binary"): each code unit is cut to its low byte
Latin1Encode(s) == [i \in 1..Len(s) |-> s[i] % 256]

(***************************************************************************)
(* node:fs.  A filesystem is a function from the segment sequences of the  *)
(* existing nodes to their stat and content.  mtime is 0 for a node that   *)
(* was there at start and 1 for a node the gateway wrote; the mtime of a   *)
(* directory is not changed by updates of its children.  Symbolic links    *)
(* are not modelled.                                                       *)
(***************************************************************************)
DirNode(t) == [isDirectory |-> TRUE, data |-> <<>>, mtime |-> t]

FileNode(d, t) == [isDirectory |-> FALSE, data |-> d, mtime |-> t]

\* stats.size
StatSize(n) == IF n.isDirectory THEN 4096 ELSE Len(n.data)

HasTrailingSlash(p) == Len(p) > 1 /\ p[Len(p)] = SLASH

IsPrefixSeq(a, b) == Len(a) <= Len(b) /\ SubSeq(b, 1, Len(a)) = a

Parent(k) == SubSeq(k, 1, Len(k) - 1)

IsDirKey(f, k) == k \in DOMAIN f /\ f[k].isDirectory

KeyExists(f, k, asDir) == k \in DOMAIN f /\ (asDir => f[k].isDirectory)

\* fs.existsSync(p): a path with a trailing separator names a directory
ExistsSync(f, p) == KeyExists(f, Segments(p), HasTrailingSlash(p))

\* fs.statSync(p).isDirectory(), for an existing p
IsDirectory(f, p) == f[Segments(p)].isDirectory

NamesUnder(f, dirKey) ==
  {k[Len(k)] : k \in {c \in DOMAIN f : c # <<>> /\ Parent(c) = dirKey}}

\* the names fs.readdirSync(p) returns, in no order
ChildNames(f, p) == NamesUnder(f, Segments(p))

\* fs.readdirSync(p) throws ENOENT or ENOTDIR
ReaddirThrows(f, p) == ~IsDirKey(f, Segments(p))

Ancestors(k) == {SubSeq(k, 1, i) : i \in 0..Len(k)}

WithDirs(f, ks) == [k \in DOMAIN f \cup ks |-> IF k \in DOMAIN f THEN f[k] ELSE DirNode(1)]

\* fs.mkdirSync(p, {recursive: true}): p and its missing ancestors
MkdirRecursive(f, p) == WithDirs(f, Ancestors(Segments(p)))

Without(f, gone) == [k \in DOMAIN f \ gone |-> f[k]]

KeysUnder(f, top) == {c \in DOMAIN f : IsPrefixSeq(top, c)}

\* a removal that takes the directory and leaves what is under it
RmSyncShallow(f, p) == Without(f, {Segments(p)})

\* fs.rmSync(p, {recursive: true}): p and everything under it
RmSyncRecursive(f, p) == Without(f, KeysUnder(f, Segments(p)))

\* fs.unlinkSync(p), for an existing file p
UnlinkSync(f, p) == Without(f, {Segments(p)})

\* fs.readFileSync(p) and the read stream fail with ENOENT on a missing p and
\* with EISDIR on a directory
ReadFileThrows(f, p) == ~ExistsSync(f, p) \/ IsDirectory(f, p)

ReadFileSync(f, p) == f[Segments(p)].data

WriteKeyThrows(f, k, trailing) ==
  \/ k = <<>>
  \/ trailing
  \/ ~IsDirKey(f, Parent(k))
  \/ IsDirKey(f, k)

\* fs.writeFileSync(p, data) throws EISDIR on a directory (or a path with a
\* trailing separator), ENOENT or ENOTDIR when the parent is no directory
WriteFileThrows(f, p) == WriteKeyThrows(f, Segments(p), HasTrailingSlash(p))

PutFile(f, key, data) ==
  [k \in DOMAIN f \cup {key} |-> IF k = key THEN FileNode(data, 1) ELSE f[k]]

\* fs.writeFileSync(p, data): the file is created or wholly replaced
WriteFileSync(f, p, data) == PutFile(f, Segments(p), data)

(***************************************************************************)
(* The deployment the model runs in: the workspace root the Workspace      *)
(* Locator returns, and the tree around it at start.                       *)
(***************************************************************************)
N_data == Str(<<"d", "a", "t", "a">>)
N_ws == Str(<<"w", "s">>)
N_wsevil == Str(<<"w", "s", "-", "e", "v", "i", "l">>)
N_etc == Str(<<"e", "t", "c">>)
N_passwd == Str(<<"p", "a", "s", "s", "w", "d">>)
N_notes == Str(<<"n", "o", "t", "e", "s", ".", "m", "d">>)
N_hidden == Str(<<".", "h", "i", "d", "d", "e", "n">>)
N_sub == Str(<<"s", "u", "b">>)
N_f == Str(<<"f", ".", "t", "x", "t">>)
N_g == Str(<<"g">>)
N_s == Str(<<"s">>)
N_text == Str(<<"t", "e", "x", "t">>)
\* a name of one character beyond latin1, U+65E5
N_kanji == <<26085>>
N_upload == Str(<<"u", "p", "l", "o", "a", "d">>)

\* rootWorkspaceDir: resolveAgentWorkspaceDir(config, agentId)
ROOT == JoinSegments(<<N_data, N_ws>>)

\* the tree outside the workspace, with a sibling whose name starts with the
\* root's name
OutsideFs ==
  (<<>> :> DirNode(0))
  @@ (<<N_data>> :> DirNode(0))
  @@ (<<N_etc>> :> DirNode(0))
  @@ (<<N_etc, N_passwd>> :> FileNode(Str(<<"r", "o", "o", "t">>), 0))
  @@ (<<N_data, N_wsevil>> :> DirNode(0))
  @@ (<<N_data, N_wsevil, N_s>> :> FileNode(Str(<<"k", "e", "y">>), 0))

\* a workspace that has been used: a file, a hidden file, a nested directory
WorkspaceFs ==
  (<<N_data, N_ws>> :> DirNode(0))
  @@ (<<N_data, N_ws, N_notes>> :> FileNode(Str(<<"h", "i">>), 0))
  @@ (<<N_data, N_ws, N_hidden>> :> FileNode(Str(<<"x">>), 0))
  @@ (<<N_data, N_ws, N_sub>> :> DirNode(0))
  @@ (<<N_data, N_ws, N_sub, N_f>> :> FileNode(Str(<<"a", "b">>), 0))
  @@ (<<N_data, N_ws, N_sub, N_text>> :> DirNode(0))
  @@ (<<N_data, N_ws, N_sub, N_text, N_g>> :> FileNode(<<>>, 0))
  @@ (<<N_data, N_ws, N_sub, N_text, N_kanji>> :> FileNode(Str(<<"n", "i">>), 0))

\* the workspace root is created lazily: at start it exists or it does not
InitialFs == {OutsideFs, OutsideFs @@ WorkspaceFs}

(***************************************************************************)
(* Requests.  pathname is url.pathname after the URL parser has resolved   *)
(* its dot segments; path is the `path` query parameter, decoded ("" when  *)
(* absent); bearer and qtoken are the credential of the Authorization      *)
(* header and of the `token` query parameter (NULL when absent);           *)
(* contentType is the content-type header ("" when absent); chunks is the  *)
(* request body as the transport delivers it.                              *)
(***************************************************************************)
NULL == "null"

API == Str(<<"/", "a", "p", "i", "/", "w", "o", "r", "k", "s", "p", "a", "c", "e">>)

TEXT_MARK == Str(<<"/", "t", "e", "x", "t", "/">>)

UPLOAD_PATH == API \o <<SLASH>> \o N_upload

BOUNDARY_EQ == Str(<<"b", "o", "u", "n", "d", "a", "r", "y", "=">>)

FILENAME_EQ == Str(<<"f", "i", "l", "e", "n", "a", "m", "e", "=", "\"">>)

UPLOADED_FILE == Str(<<"u", "p", "l", "o", "a", "d", "e", "d", "_", "f", "i", "l", "e">>)

NOT_FOUND == Str(<<"N", "o", "t", " ", "F", "o", "u", "n", "d">>)

ATTACHMENT == Str(<<"a", "t", "t", "a", "c", "h", "m", "e", "n", "t", ";", " ">>)

Req(m, pn, qp, b, qt, ct, ch) ==
  [method |-> m, pathname |-> pn, path |-> qp, bearer |-> b, qtoken |-> qt,
   contentType |-> ct, chunks |-> ch]

\* a handler that reads the token from the query string only
QueryToken(req) == req.qtoken

\* getBearerToken(req) ?? url.searchParams.get("token") ?? undefined
Token(req) == IF req.bearer # NULL THEN req.bearer ELSE req.qtoken

\* authorizeGatewayConnect: the Auth Authority accepts the configured token
GOOD_TOKEN == "t-good"

AuthorityAccepts(token) == token = GOOD_TOKEN

\* a handler that skips the credential test
AnyCredential(req) == TRUE

\* authResult.ok
Authorized(req) == AuthorityAccepts(Token(req))

\* url.pathname.slice("/api/workspace".length).replace(/^\/+/, "")
SubPath(req) == StripLeadingSlashes(SliceFrom(req.pathname, Len(API)))

\* path.join(rootWorkspaceDir, queryPath)
WorkspaceDir(req) == PathJoin(ROOT, req.path)

\* the containment test of the handler: p.startsWith(base)
ContainmentCheck(p, base) == StartsWith(p, base)

\* decodeURIComponent(subPath)
FileName(req) == DecodeURIComponent(SubPath(req))

\* path.join(workspaceDir, fileName)
FilePath(req) == PathJoin(WorkspaceDir(req), FileName(req))

\* path.join(workspaceDir, subPath.replace(/^text\//, ""))
ActualFilePath(req) == PathJoin(WorkspaceDir(req), StripTextPrefix(SubPath(req)))

\* a handler that takes the boundary X when the content type names none
DefaultBoundary(req) == Str(<<"X">>)

\* req.headers["content-type"]?.split("boundary=")[1], "" when undefined
Boundary(req) ==
  LET parts == Split(req.contentType, BOUNDARY_EQ)
  IN  IF Len(parts) >= 2 THEN parts[2] ELSE <<>>

\* url.pathname.includes("/text/")
IsTextRoute(req) == Includes(req.pathname, TEXT_MARK)

\* the way a request takes through the handler, as far as the request alone
\* decides it: the tests of lines 19-213 in their order
RouteOf(req) ==
  IF ~StartsWith(req.pathname, API) THEN "notMine"
  ELSE IF ~Authorized(req) THEN "unauthorized"
  ELSE IF ~ContainmentCheck(WorkspaceDir(req), ROOT) THEN "forbiddenDir"
  ELSE IF SubPath(req) = <<>>
  THEN IF req.method = "GET" THEN "list" ELSE "fallThrough"
  ELSE IF ~DecodeOk(SubPath(req)) THEN "decodeThrows"
  ELSE IF ~ContainmentCheck(FilePath(req), ROOT) THEN "forbiddenFile"
  ELSE IF req.method = "GET" /\ ~IsTextRoute(req) THEN "download"
  ELSE IF req.method = "DELETE" THEN "delete"
  ELSE IF req.method = "GET" /\ IsTextRoute(req) THEN "textRead"
  ELSE IF req.method = "PUT" /\ IsTextRoute(req) THEN "textWrite"
  ELSE IF req.pathname = UPLOAD_PATH /\ req.method = "POST" THEN "upload"
  ELSE "fallThrough"

PlanFor(req, route, hasName) ==
  [route |-> route,
   dir |-> WorkspaceDir(req),
   fileName |-> IF hasName THEN FileName(req) ELSE <<>>,
   filePath |-> IF hasName THEN FilePath(req) ELSE <<>>,
   actualFilePath |-> ActualFilePath(req),
   boundary |-> Boundary(req)]

\* a request that reaches line 80 and whose name decodes
HasFileName(req, route) ==
  /\ route \notin {"notMine", "unauthorized", "forbiddenDir", "list", "decodeThrows"}
  /\ SubPath(req) # <<>>

PlanWith(req, route) == PlanFor(req, route, HasFileName(req, route))

\* the route of a request and the paths the handler computes on it
Plan(req) == PlanWith(req, RouteOf(req))

(***************************************************************************)
(* Directory Lister (lines 57-76).                                         *)
(***************************************************************************)
\* the orders in which readdirSync may return the names of a directory
Orders(S) ==
  {o \in [1..Cardinality(S) -> S] : \A i, j \in 1..Cardinality(S) : i # j => o[i] # o[j]}

EntryOf(name, n) ==
  [name |-> name, size |-> StatSize(n), mtime |-> n.mtime, isDirectory |-> n.isDirectory]

\* the File Entry of one child: its name and the statSync of its path
Entry(f, dir, name) == EntryOf(name, f[Segments(PathJoin(dir, name))])

\* a lister without the filter
IsAnyEntry(e) == TRUE

\* .filter(f => !f.name.startsWith("."))
IsListed(e) == ~StartsWith(e.name, <<DOT>>)

ListEntries(f, dir, order) ==
  SelectSeq([i \in 1..Len(order) |-> Entry(f, dir, order[i])], IsListed)

(***************************************************************************)
(* Multipart Ingest: the body of the "end" callback (lines 186-204).       *)
(***************************************************************************)
IsLineTerminator(c) == c = CR \/ c = LF

\* part.match(/filename="(.+?)"/): the offsets <<i, j>> of the leftmost
\* match, whose name is part.slice(i + 10, j); <<-1, -1>> when none
FilenameMatch(part) ==
  LET n == Len(FILENAME_EQ)
      ends(i) == {j \in (i + n + 1)..(Len(part) - 1) :
                    /\ part[j + 1] = QUOTE
                    /\ \A k \in (i + n)..(j - 1) : ~IsLineTerminator(part[k + 1])}
      starts == {i \in 0..(Len(part) - n) : MatchAt(part, FILENAME_EQ, i) /\ ends(i) # {}}
  IN  IF starts = {} THEN <<-1, -1>>
      ELSE LET i == CHOOSE x \in starts : \A y \in starts : x <= y
           IN  <<i, CHOOSE x \in ends(i) : \A y \in ends(i) : x <= y>>

NameAt(part, m) ==
  IF m[1] < 0 THEN UPLOADED_FILE ELSE Slice(part, m[1] + Len(FILENAME_EQ), m[2])

\* nameMatch ? nameMatch[1] : "uploaded_file"
PartFileName(part) == NameAt(part, FilenameMatch(part))

\* part.slice(part.indexOf("\r\n\r\n") + 4, part.lastIndexOf("\r\n")); a
\* negative end counts from the end of the string
ContentBetween(part, contentStart, contentEnd) ==
  Slice(part, contentStart, IF contentEnd < 0 THEN Len(part) + contentEnd ELSE contentEnd)

PartContent(part) ==
  ContentBetween(part, IndexOf(part, CRLF \o CRLF) + 4, LastIndexOf(part, CRLF))

\* part.includes('filename="')
IsFilePart(part) == Includes(part, FILENAME_EQ)

\* body.toString("binary").split(`--${boundary}`)
BodyParts(body, boundary) == Split(Latin1Decode(body), <<DASH, DASH>> \o boundary)

\* fs.writeFileSync(targetPath, content, "binary") of one part, within
\* acc = [fs, threw, touched, written]
WritePart(acc, targetPath, content) ==
  IF WriteFileThrows(acc.fs, targetPath)
  THEN [acc EXCEPT !.threw = TRUE, !.touched = @ \cup {targetPath}]
  ELSE [acc EXCEPT !.fs = WriteFileSync(@, targetPath, Latin1Encode(content)),
                   !.touched = @ \cup {targetPath},
                   !.written = Append(@, targetPath)]

\* one turn of the loop over the parts (lines 189-201)
IngestPart(part, dir, acc, targetPath) ==
  IF ~IsFilePart(part) \/ ~ContainmentCheck(targetPath, dir) THEN acc
  ELSE WritePart(acc, targetPath, PartContent(part))

\* the loop: a throwing writeFileSync ends it with the earlier parts written
RECURSIVE WriteParts(_, _, _)
WriteParts(parts, dir, acc) ==
  IF parts = <<>> \/ acc.threw THEN acc
  ELSE WriteParts(Tail(parts), dir,
                  IngestPart(Head(parts), dir, acc,
                             PathJoin(dir, PartFileName(Head(parts)))))

IngestParts(f, dir, body, boundary) ==
  WriteParts(BodyParts(body, boundary), dir,
             [fs |-> f, threw |-> FALSE, touched |-> {}, written |-> <<>>])

(***************************************************************************)
(* The requests of the model.                                              *)
(***************************************************************************)
Api(suffix) == API \o suffix

\* a request of the UI client: the token travels in the query (addAuthParams)
Good(m, pn, qp, ct, ch) == Req(m, pn, qp, NULL, GOOD_TOKEN, ct, ch)

Bad(m, pn, qp, ct, ch) == Req(m, pn, qp, NULL, "t-bad", ct, ch)

(***************************************************************************)
(* The requests the UI client builds (ui/controllers/workspace.ts).        *)
(***************************************************************************)
\* the characters encodeURIComponent leaves as they are
Unreserved ==
  {Code(c) : c \in {"-", "_", ".", "!", "~", "*", "'", "(", ")"}}
    \cup (Code("0")..Code("9")) \cup (Code("A")..Code("Z")) \cup (Code("a")..Code("z"))

RECURSIVE PercentEncode(_)
\* every byte that is not unreserved becomes %XX
PercentEncode(b) ==
  IF b = <<>> THEN <<>>
  ELSE (IF b[1] \in Unreserved THEN <<b[1]>>
        ELSE <<PERCENT, HexDigits[(b[1] \div 16) + 1], HexDigits[(b[1] % 16) + 1]>>)
       \o PercentEncode(Tail(b))

\* encodeURIComponent(s): the UTF-8 bytes of s, percent-encoded
EncodeURIComponent(s) == PercentEncode(Utf8Encode(s))

\* app.workspaceCurrentPath ? `${app.workspaceCurrentPath}/${name}` : name
FullPath(cur, name) == IF cur # <<>> THEN cur \o <<SLASH>> \o name ELSE name

\* new URL(`/api/workspace/${encodeURIComponent(fullPath)}`) with addAuthParams
DownloadFromWorkspace(cur, name) ==
  Good("GET", Api(<<SLASH>> \o EncodeURIComponent(FullPath(cur, name))), cur, <<>>, <<>>)

DeleteFromWorkspace(cur, name) ==
  Good("DELETE", Api(<<SLASH>> \o EncodeURIComponent(FullPath(cur, name))), cur, <<>>, <<>>)

\* new URL(`/api/workspace/text/${encodeURIComponent(fullPath)}`)
EditInWorkspace(cur, name) ==
  Good("GET", Api(TEXT_MARK \o EncodeURIComponent(FullPath(cur, name))), cur, <<>>, <<>>)

\* the PUT of saveInWorkspace; fetch sends the string as UTF-8
SaveInWorkspace(cur, name, content) ==
  Good("PUT", Api(TEXT_MARK \o EncodeURIComponent(FullPath(cur, name))), cur, <<>>,
       IF content = <<>> THEN <<>> ELSE <<Utf8Encode(content)>>)

\* new URL("/api/workspace") with addAuthParams
LoadWorkspace(cur) == Good("GET", Api(<<>>), cur, <<>>, <<>>)

P_notes == Str(<<"/", "n", "o", "t", "e", "s", ".", "m", "d">>)
P_sub == Str(<<"/", "s", "u", "b">>)
P_subF == Str(<<"/", "s", "u", "b", "%", "2", "F", "f", ".", "t", "x", "t">>)
P_missing == Str(<<"/", "m", "i", "s", "s", "i", "n", "g">>)
P_textNotes == Str(<<"/", "t", "e", "x", "t", "/", "n", "o", "t", "e", "s", ".", "m", "d">>)
P_textSub == Str(<<"/", "t", "e", "x", "t", "/", "s", "u", "b">>)
P_textNew == Str(<<"/", "t", "e", "x", "t", "/", "n", "e", "w">>)
P_textSubF == TEXT_MARK \o Str(<<"s", "u", "b", "%", "2", "F", "f", ".", "t", "x", "t">>)
P_subUp == Str(<<"/", "s", "u", "b", "%", "2", "F", ".", ".">>)
P_upload == Str(<<"/", "u", "p", "l", "o", "a", "d">>)
P_badEscape == Str(<<"/", "%">>)
P_evilS == Str(<<"/", ".", ".", "%", "2", "F", "w", "s", "-", "e", "v", "i", "l", "%", "2", "F", "s">>)
P_evil == Str(<<"/", ".", ".", "%", "2", "F", "w", "s", "-", "e", "v", "i", "l">>)
P_etcPasswd == Str(<<"/", ".", ".", "%", "2", "F", ".", ".", "%", "2", "F",
                     "e", "t", "c", "%", "2", "F", "p", "a", "s", "s", "w", "d">>)
P_kanji == Str(<<"/", "%", "E", "6", "%", "9", "7", "%", "A", "5">>)
P_subTextG == Str(<<"/", "s", "u", "b", "/", "t", "e", "x", "t", "/", "g">>)
P_other == Str(<<"/", "a", "p", "i", "/", "c", "h", "a", "t">>)

Q_none == <<>>
Q_sub == N_sub
Q_evil == Str(<<".", ".", "/", "w", "s", "-", "e", "v", "i", "l">>)
Q_subText == Str(<<"s", "u", "b", "/", "t", "e", "x", "t">>)
Q_etc == Str(<<".", ".", "/", ".", ".", "/", "e", "t", "c">>)

\* the multipart/form-data encoding of a FormData body (uploadToWorkspace):
\* a part is [isFile, fileName, content]; a part that is no file is a field
H_disposition ==
  Str(<<"C", "o", "n", "t", "e", "n", "t", "-", "D", "i", "s", "p", "o", "s", "i", "t",
        "i", "o", "n", ":", " ", "f", "o", "r", "m", "-", "d", "a", "t", "a", ";", " ",
        "n", "a", "m", "e", "=", "\"", "f", "i", "l", "e", "s", "\"">>)

H_type ==
  Str(<<"C", "o", "n", "t", "e", "n", "t", "-", "T", "y", "p", "e", ":", " ",
        "a", "p", "p", "l", "i", "c", "a", "t", "i", "o", "n", "/",
        "o", "c", "t", "e", "t", "-", "s", "t", "r", "e", "a", "m">>)

EncodePart(boundary, part) ==
  <<DASH, DASH>> \o boundary \o CRLF \o H_disposition
    \o (IF ~part.isFile THEN <<>>
        ELSE Str(<<";", " ">>) \o FILENAME_EQ \o part.fileName \o <<QUOTE>> \o CRLF \o H_type)
    \o CRLF \o CRLF \o part.content \o CRLF

RECURSIVE EncodeParts(_, _)
EncodeParts(boundary, parts) ==
  IF parts = <<>> THEN <<DASH, DASH>> \o boundary \o <<DASH, DASH>> \o CRLF
  ELSE EncodePart(boundary, Head(parts)) \o EncodeParts(boundary, Tail(parts))

FilePart(name, content) == [isFile |-> TRUE, fileName |-> name, content |-> content]

FieldPart(content) == [isFile |-> FALSE, fileName |-> <<>>, content |-> content]

MultipartType(boundary) ==
  Str(<<"m", "u", "l", "t", "i", "p", "a", "r", "t", "/", "f", "o", "r", "m", "-",
        "d", "a", "t", "a", ";", " ">>) \o BOUNDARY_EQ \o boundary

B_X == Str(<<"X">>)

\* the ways the transport may cut a body into at most two chunks
Chunkings(body) ==
  IF body = <<>> THEN {<<>>}
  ELSE {<<body>>} \cup {<<Slice(body, 0, k), SliceFrom(body, k)>> : k \in 1..(Len(body) - 1)}

T_yo == Str(<<"y", "o">>)

\* "é" in UTF-8
T_eacute == <<195, 169>>

U_report == Str(<<"r", ".", "t", "x", "t">>)
U_second == Str(<<"b", ".", "b", "i", "n">>)
U_evil == Str(<<".", ".", "/", "w", "s", "-", "e", "v", "i", "l", "/", "x">>)

\* payloads: every kind of byte, and one that holds the delimiter "--X" inside
\* a line, which RFC 2046 allows
B_bytes == <<0, 1, 255>>
B_dashes == Str(<<"a", "-", "-", "X">>)

\* the file parts of the uploads of the model
UploadCases ==
  {<<FilePart(U_report, B_bytes)>>,
   <<FilePart(U_report, <<>>)>>,
   <<FilePart(U_report, B_dashes)>>,
   <<FilePart(U_report, B_bytes), FilePart(U_second, <<CR, LF>>)>>,
   <<FilePart(N_sub, B_bytes)>>,
   <<FilePart(N_hidden, B_bytes)>>,
   <<FilePart(U_evil, B_bytes)>>}

\* the requests of the UI client for the entry name of its directory cur
ClientOps(cur, name) ==
  {DownloadFromWorkspace(cur, name), DeleteFromWorkspace(cur, name),
   EditInWorkspace(cur, name), SaveInWorkspace(cur, name, T_yo)}

\* entries of the used workspace with the directory the client shows them in
ClientTargets == {<<<<>>, N_notes>>, <<N_sub, N_f>>}

\* a content type that names no boundary
U_formData ==
  Str(<<"m", "u", "l", "t", "i", "p", "a", "r", "t", "/", "f", "o", "r", "m", "-",
        "d", "a", "t", "a">>)

\* a payload that reads like the file-name attribute of a header
B_attribute == FILENAME_EQ \o Str(<<"p", "\"">>)

\* uploads with form fields, which carry no file name
FieldCases ==
  {<<FieldPart(T_yo)>>,
   <<FieldPart(T_yo), FilePart(U_report, B_bytes)>>,
   <<FieldPart(B_attribute)>>}

UploadOf(parts) ==
  Good("POST", Api(P_upload), Q_none, MultipartType(B_X), <<EncodeParts(B_X, parts)>>)

Requests ==
  {Good("GET", Api(<<>>), q, <<>>, <<>>) : q \in {Q_none, Q_sub, Q_evil, Q_etc}}
  \cup {Good("GET", Api(p), Q_none, <<>>, <<>>) :
          p \in {P_notes, P_sub, P_subF, P_missing, P_evilS, P_etcPasswd, P_badEscape,
                 P_textNotes, P_textSub, P_textNew}}
  \cup {Good("GET", Api(P_kanji), Q_subText, <<>>, <<>>),
        Good("GET", Api(P_subTextG), Q_none, <<>>, <<>>)}
  \cup {Good("DELETE", Api(p), Q_none, <<>>, <<>>) :
          p \in {<<>>, P_notes, P_sub, P_subF, P_missing, P_evil, P_subUp}}
  \cup {Good("PUT", Api(P_textNotes), Q_none, <<>>, c) :
          c \in Chunkings(T_yo) \cup Chunkings(T_eacute) \cup Chunkings(<<>>)}
  \cup {Good("PUT", Api(p), Q_none, <<>>, <<T_yo>>) :
          p \in {P_textSub, P_textNew, P_notes, P_subTextG}}
  \cup {Good("PUT", Api(P_textNew), Q_sub, <<>>, <<T_yo>>),
        Good("PUT", Api(P_textSubF), Q_none, <<>>, <<T_yo>>),
        Good("GET", Api(P_textSubF), Q_none, <<>>, <<>>)}
  \cup UNION {ClientOps(t[1], t[2]) : t \in ClientTargets}
  \cup {UploadOf(parts) : parts \in UploadCases \cup FieldCases}
  \cup {Good("POST", Api(p), Q_none, <<>>, <<>>) : p \in {P_upload, P_notes}}
  \cup {Good("POST", Api(P_upload), Q_none, ct, <<EncodeParts(B_X, <<FilePart(U_report, B_bytes)>>)>>) :
          ct \in {U_formData, MultipartType(<<>>)}}
  \cup {Bad(m, Api(P_notes), Q_none, <<>>, <<>>) : m \in {"GET", "DELETE"}}
  \cup {Bad("GET", Api(<<>>), Q_none, <<>>, <<>>),
        Bad("PUT", Api(P_textNotes), Q_none, <<>>, <<T_yo>>),
        Bad("POST", Api(P_upload), Q_none, MultipartType(B_X), <<>>),
        Req("GET", Api(P_notes), Q_none, NULL, NULL, <<>>, <<>>),
        Req("GET", Api(P_notes), Q_none, GOOD_TOKEN, NULL, <<>>, <<>>),
        Good("GET", P_other, Q_none, <<>>, <<>>)}

\* the same request with its token in the Authorization header instead of the
\* query string
ViaHeader(req) == [req EXCEPT !.bearer = req.qtoken, !.qtoken = NULL]

\* the requests of the focused model: one or two for every way through the
\* handler, from callers with and without valid credentials
CoreRequests ==
  {Good("GET", Api(<<>>), q, <<>>, <<>>) : q \in {Q_none, Q_sub, Q_etc}}
  \cup {Good("GET", Api(p), Q_none, <<>>, <<>>) :
          p \in {P_notes, P_missing, P_etcPasswd, P_badEscape, P_textNotes}}
  \cup {Good("GET", Api(P_kanji), Q_subText, <<>>, <<>>)}
  \cup {Good("DELETE", Api(p), Q_none, <<>>, <<>>) : p \in {P_notes, P_sub, P_missing, P_evil}}
  \cup {Good("PUT", Api(P_textNew), Q_none, <<>>, <<T_yo>>),
        UploadOf(<<FilePart(U_report, B_bytes)>>),
        UploadOf(<<FilePart(N_hidden, B_bytes)>>),
        Good("POST", Api(P_upload), Q_none, <<>>, <<>>),
        Good("POST", Api(P_upload), Q_none, U_formData,
             <<EncodeParts(B_X, <<FilePart(U_report, B_bytes)>>)>>),
        Good("POST", Api(P_notes), Q_none, <<>>, <<>>),
        Good("GET", P_other, Q_none, <<>>, <<>>),
        Bad("GET", Api(<<>>), Q_none, <<>>, <<>>),
        Bad("DELETE", Api(P_sub), Q_none, <<>>, <<>>),
        Bad("PUT", Api(P_textNew), Q_none, <<>>, <<T_yo>>),
        Bad("POST", Api(P_upload), Q_none, MultipartType(B_X), <<>>),
        Req("GET", Api(P_notes), Q_none, NULL, NULL, <<>>, <<>>)}
  \cup {ViaHeader(req) : req \in {Good("GET", Api(<<>>), Q_none, <<>>, <<>>),
                                  Good("DELETE", Api(P_sub), Q_none, <<>>, <<>>),
                                  Good("PUT", Api(P_textNew), Q_none, <<>>, <<T_yo>>),
                                  Bad("GET", Api(<<>>), Q_none, <<>>, <<>>)}}

AllRequests == Requests \cup CoreRequests

\* the plan of every request of the model, computed once
PlanOf == [req \in AllRequests |-> Plan(req)]

(***************************************************************************)
(* State.                                                                  *)
(*   fs      the filesystem                                                *)
(*   conns   the requests whose handler has returned and whose callbacks   *)
(*           ("data", "end", the download stream) are still to run         *)
(*   last    what the most recent handler call or callback did: the        *)
(*           request, the handler's return value, the response written,    *)
(*           the paths handed to node:fs                                   *)
(*   alive   FALSE once an uncaught exception has ended the process        *)
(*   served  the number of requests accepted so far                        *)
(***************************************************************************)
\* the gateway: fs, conns, last, alive, served; the UI client: app (the fields
\* of OpenClawApp the controller uses), ops (its operations in flight) and
\* editOrigin (the request whose response filled the editing session)
VARIABLES fs, conns, last, alive, served, app, ops, editOrigin

vars == <<fs, conns, last, alive, served, app, ops, editOrigin>>

gateway == <<fs, conns, last, alive, served>>

client == <<app, ops, editOrigin>>

MaxRequests == 2
MaxConns == 2

ConnIds == 1..MaxConns

NoReq == Req("", <<>>, <<>>, NULL, NULL, <<>>, <<>>)

IdleConn ==
  [state |-> "idle", kind |-> "none", req |-> NoReq, target |-> <<>>, dir |-> <<>>,
   fileName |-> <<>>, boundary |-> <<>>, body |-> <<>>, pending |-> <<>>]

\* an event: handled is the handler's return value ("true", "false", "threw",
\* or "callback" for a callback); status 0 means no response was written
Ev(ev, req, handled, status, json, touched) ==
  [ev |-> ev, req |-> req, handled |-> handled, status |-> status, json |-> json,
   text |-> <<>>, entries |-> <<>>, disposition |-> <<>>, contentType |-> "",
   touched |-> touched, written |-> <<>>]

FreeConns == {i \in ConnIds : conns[i].state = "idle"}

FreeConn == MinOr(FreeConns, 0)

\* lines 43-45: the root is created when the handler first gets that far
EnsureRoot(f) == IF ~ExistsSync(f, ROOT) THEN MkdirRecursive(f, ROOT) ELSE f

\* an exception no try block encloses: the process ends unless its embedder
\* installed an uncaughtException handler, and the request is never answered
Uncaught(i, ev, touched, f) ==
  /\ fs' = f
  /\ last' = Ev(ev, conns[i].req, "callback", 0, "uncaught", touched)
  /\ \E survives \in BOOLEAN :
       /\ alive' = survives
       /\ conns' = IF survives THEN [conns EXCEPT ![i] = IdleConn]
                   ELSE [j \in ConnIds |-> IdleConn]

\* the handler is called with a request whose plan is plan, and takes route
Takes(plan, route) ==
  /\ alive
  /\ served < MaxRequests
  /\ plan.route = route
  /\ served' = served + 1
  /\ alive' = alive
  /\ UNCHANGED client

(***************************************************************************)
(* handleWorkspaceHttpRequest, one action per way through it.  plan is the *)
(* plan of req, and f the filesystem once the root is ensured.             *)
(***************************************************************************)
\* lines 19-21: not under /api/workspace
NotMine(req, plan) ==
  /\ Takes(plan, "notMine")
  /\ last' = Ev("notMine", req, "false", 0, "none", {})
  /\ UNCHANGED <<fs, conns>>

\* lines 33-37
Unauthorized(req, plan) ==
  /\ Takes(plan, "unauthorized")
  /\ last' = Ev("unauthorized", req, "true", 401, "Unauthorized", {})
  /\ UNCHANGED <<fs, conns>>

\* lines 52-55
ForbiddenDir(req, plan, f) ==
  /\ Takes(plan, "forbiddenDir")
  /\ fs' = f
  /\ last' = Ev("forbiddenDir", req, "true", 403, "Forbidden", {ROOT})
  /\ UNCHANGED conns

ListTouched(dir, names) == {ROOT, dir} \cup {PathJoin(dir, n) : n \in names}

ListOk(req, f, dir, names) ==
  \E order \in Orders(names) :
    last' = [Ev("list", req, "true", 200, "entries", ListTouched(dir, names))
             EXCEPT !.entries = ListEntries(f, dir, order)]

\* lines 58-76
List(req, plan, f) ==
  /\ Takes(plan, "list")
  /\ fs' = f
  /\ IF ReaddirThrows(f, plan.dir)
     THEN last' = Ev("list", req, "true", 500, "Failed to list workspace",
                     {ROOT, plan.dir})
     ELSE ListOk(req, f, plan.dir, ChildNames(f, plan.dir))
  /\ UNCHANGED conns

\* line 80: decodeURIComponent throws URIError and the handler's promise rejects
DecodeThrows(req, plan, f) ==
  /\ Takes(plan, "decodeThrows")
  /\ fs' = f
  /\ last' = Ev("decodeThrows", req, "threw", 0, "none", {ROOT})
  /\ UNCHANGED conns

\* lines 84-87
ForbiddenFile(req, plan, f) ==
  /\ Takes(plan, "forbiddenFile")
  /\ fs' = f
  /\ last' = Ev("forbiddenFile", req, "true", 403, "Forbidden", {ROOT})
  /\ UNCHANGED conns

\* lines 90-95
DownloadMissing(req, plan, f) ==
  /\ Takes(plan, "download")
  /\ ~ExistsSync(f, plan.filePath)
  /\ fs' = f
  /\ last' = [Ev("download", req, "true", 404, "none", {ROOT, plan.filePath})
              EXCEPT !.text = NOT_FOUND]
  /\ UNCHANGED conns

\* `attachment; filename="${fileName}"`
Disposition(fileName) == ATTACHMENT \o FILENAME_EQ \o fileName \o <<QUOTE>>

\* res.setHeader(name, value) throws ERR_INVALID_CHAR on a value with a
\* character outside tab, 0x20-0x7e and 0x80-0xff
InvalidHeaderValue(v) ==
  \E i \in 1..Len(v) : ~(v[i] = 9 \/ (v[i] >= 32 /\ v[i] <= 126) \/ (v[i] >= 128 /\ v[i] <= 255))

\* line 96: setHeader throws and the handler's promise rejects
DownloadHeaderThrows(req, plan, f) ==
  /\ Takes(plan, "download")
  /\ ExistsSync(f, plan.filePath)
  /\ InvalidHeaderValue(Disposition(plan.fileName))
  /\ fs' = f
  /\ last' = Ev("download", req, "threw", 0, "none", {ROOT, plan.filePath})
  /\ UNCHANGED conns

\* lines 96-99: the headers are set and the read stream is created; the file is
\* opened and read after the handler has returned
Download(req, plan, f) ==
  /\ Takes(plan, "download")
  /\ ExistsSync(f, plan.filePath)
  /\ ~InvalidHeaderValue(Disposition(plan.fileName))
  /\ FreeConns # {}
  /\ fs' = f
  /\ conns' = [conns EXCEPT ![FreeConn] =
                 [IdleConn EXCEPT !.state = "streaming", !.kind = "download",
                                  !.req = req, !.target = plan.filePath,
                                  !.dir = plan.dir, !.fileName = plan.fileName]]
  /\ last' = [Ev("downloadOpen", req, "true", 0, "none", {ROOT, plan.filePath})
              EXCEPT !.disposition = Disposition(plan.fileName),
                     !.contentType = "application/octet-stream"]

\* a delete that opens its target for truncation instead of testing for it
TruncateTarget(f, p) == PutFile(f, Segments(p), <<>>)

\* lines 105-112
DeleteTarget(f, p) ==
  IF ~ExistsSync(f, p) THEN f
  ELSE IF IsDirectory(f, p) THEN RmSyncRecursive(f, p)
  ELSE UnlinkSync(f, p)

\* lines 103-119
Delete(req, plan, f) ==
  /\ Takes(plan, "delete")
  /\ fs' = DeleteTarget(f, plan.filePath)
  /\ last' = Ev("delete", req, "true", 200, "ok", {ROOT, plan.filePath})
  /\ UNCHANGED conns

\* lines 125-140: the response of a Text Read of p
TextReadResponse(req, f, p, dir) ==
  IF ~ContainmentCheck(p, dir)
  THEN Ev("textRead", req, "true", 403, "Forbidden", {ROOT})
  ELSE IF ~ExistsSync(f, p)
  THEN [Ev("textRead", req, "true", 404, "none", {ROOT, p}) EXCEPT !.text = NOT_FOUND]
  ELSE IF ReadFileThrows(f, p)
  THEN Ev("textRead", req, "true", 500, "Failed to read text file", {ROOT, p})
  ELSE [Ev("textRead", req, "true", 200, "none", {ROOT, p})
        EXCEPT !.text = Utf8Decode(ReadFileSync(f, p))]

\* lines 122-142
TextRead(req, plan, f) ==
  /\ Takes(plan, "textRead")
  /\ fs' = f
  /\ last' = TextReadResponse(req, f, plan.actualFilePath, plan.dir)
  /\ UNCHANGED conns

\* lines 145-163: the containment test, then the "data" and "end" callbacks
\* are registered
TextWrite(req, plan, f) ==
  /\ Takes(plan, "textWrite")
  /\ fs' = f
  /\ IF ~ContainmentCheck(plan.actualFilePath, plan.dir)
     THEN /\ last' = Ev("textWrite", req, "true", 403, "Forbidden", {ROOT})
          /\ UNCHANGED conns
     ELSE /\ FreeConns # {}
          /\ conns' = [conns EXCEPT ![FreeConn] =
                         [IdleConn EXCEPT !.state = "receiving", !.kind = "text",
                                          !.req = req, !.target = plan.actualFilePath,
                                          !.dir = plan.dir, !.pending = req.chunks]]
          /\ last' = Ev("textWriteOpen", req, "true", 0, "none", {ROOT})

\* lines 168-174
UploadNoBoundary(req, plan, f) ==
  /\ Takes(plan, "upload")
  /\ plan.boundary = <<>>
  /\ fs' = f
  /\ last' = Ev("upload", req, "true", 400, "Missing boundary", {ROOT})
  /\ UNCHANGED conns

\* lines 181-205: the "data" and "end" callbacks are registered
Upload(req, plan, f) ==
  /\ Takes(plan, "upload")
  /\ plan.boundary # <<>>
  /\ FreeConns # {}
  /\ fs' = f
  /\ conns' = [conns EXCEPT ![FreeConn] =
                 [IdleConn EXCEPT !.state = "receiving", !.kind = "upload",
                                  !.req = req, !.dir = plan.dir,
                                  !.boundary = plan.boundary, !.pending = req.chunks]]
  /\ last' = Ev("uploadOpen", req, "true", 0, "none", {ROOT})

\* line 213: no route matched
FallThrough(req, plan, f) ==
  /\ Takes(plan, "fallThrough")
  /\ fs' = f
  /\ last' = Ev("fallThrough", req, "false", 0, "none", {ROOT})
  /\ UNCHANGED conns

(***************************************************************************)
(* The callbacks that run after the handler has returned.                  *)
(***************************************************************************)
\* `body += chunk` decodes each chunk on its own (line 154); Buffer.concat
\* keeps the bytes (line 183)
Received(kind, body, chunk) ==
  IF kind = "text" THEN body \o Utf8Decode(chunk) ELSE body \o chunk

\* req.on("data")
OnData(i) ==
  /\ alive
  /\ conns[i].state = "receiving"
  /\ conns[i].pending # <<>>
  /\ conns' = [conns EXCEPT
                 ![i].body = Received(conns[i].kind, @, Head(conns[i].pending)),
                 ![i].pending = Tail(@)]
  /\ UNCHANGED <<fs, last, alive, served, client>>

\* fs.writeFileSync(actualFilePath, body, "utf8"); sendJson(res, 200, {ok: true})
TextWriteEnd(i, c) ==
  IF WriteFileThrows(fs, c.target)
  THEN Uncaught(i, "textWriteEnd", {c.target}, fs)
  ELSE /\ fs' = WriteFileSync(fs, c.target, Utf8Encode(c.body))
       /\ conns' = [conns EXCEPT ![i] = IdleConn]
       /\ last' = [Ev("textWriteEnd", c.req, "callback", 200, "ok", {c.target})
                   EXCEPT !.written = <<c.target>>]
       /\ alive' = alive

\* req.on("end") of a Text Write (lines 155-158), outside any try block
OnEndText(i) ==
  /\ alive
  /\ conns[i].state = "receiving"
  /\ conns[i].kind = "text"
  /\ conns[i].pending = <<>>
  /\ TextWriteEnd(i, conns[i])
  /\ UNCHANGED <<served, client>>

UploadEnd(i, c, r) ==
  IF r.threw
  THEN Uncaught(i, "uploadEnd", r.touched, r.fs)
  ELSE /\ fs' = r.fs
       /\ conns' = [conns EXCEPT ![i] = IdleConn]
       /\ last' = [Ev("uploadEnd", c.req, "callback", 200, "ok", r.touched)
                   EXCEPT !.written = r.written]
       /\ alive' = alive

\* req.on("end") of an upload (lines 186-204), outside any try block
OnEndUpload(i) ==
  /\ alive
  /\ conns[i].state = "receiving"
  /\ conns[i].kind = "upload"
  /\ conns[i].pending = <<>>
  /\ UploadEnd(i, conns[i], IngestParts(fs, conns[i].dir, conns[i].body, conns[i].boundary))
  /\ UNCHANGED <<served, client>>

\* a handler that stores what it has received when the caller disconnects
AbortFlushes(i) ==
  /\ alive
  /\ conns[i].state = "receiving"
  /\ conns' = [conns EXCEPT ![i] = IdleConn]
  /\ last' = Ev("abort", conns[i].req, "callback", 0, "none", {})
  /\ fs' = IF conns[i].kind = "text" /\ ~WriteFileThrows(fs, conns[i].target)
           THEN WriteFileSync(fs, conns[i].target, Utf8Encode(conns[i].body))
           ELSE fs
  /\ UNCHANGED <<alive, served, client>>

\* the caller disconnects before the end of the body: "end" is never emitted
Abort(i) ==
  /\ alive
  /\ conns[i].state = "receiving"
  /\ conns' = [conns EXCEPT ![i] = IdleConn]
  /\ last' = Ev("abort", conns[i].req, "callback", 0, "none", {})
  /\ UNCHANGED <<fs, alive, served, client>>

StreamEnd(i, c) ==
  IF ReadFileThrows(fs, c.target)
  THEN Uncaught(i, "downloadStream", {c.target}, fs)
  ELSE /\ last' = [Ev("downloadStream", c.req, "callback", 200, "none", {c.target})
                   EXCEPT !.text = ReadFileSync(fs, c.target),
                          !.disposition = Disposition(c.fileName),
                          !.contentType = "application/octet-stream"]
       /\ conns' = [conns EXCEPT ![i] = IdleConn]
       /\ UNCHANGED <<fs, alive>>

\* fs.createReadStream(filePath).pipe(res) (line 98): the stream opens and
\* reads the file; its "error" event has no listener
Stream(i) ==
  /\ alive
  /\ conns[i].state = "streaming"
  /\ StreamEnd(i, conns[i])
  /\ UNCHANGED <<served, client>>

(***************************************************************************)
(* The UI client (ui/controllers/workspace.ts): its state.                 *)
(***************************************************************************)
\* the operations the user starts
MaxOps == 3

OpIds == 1..MaxOps

\* workspaceEditingFile = null
NoFile == [name |-> <<>>, size |-> 0, mtime |-> 0, isDirectory |-> FALSE]

\* an operation between two awaits: fetch is the await of its own request,
\* reload the await of the loadWorkspace it calls after a success
IdleOp == [kind |-> "idle", pc |-> "idle", req |-> NoReq, file |-> NoFile]

\* an operation that has returned
DoneOp == [kind |-> "done", pc |-> "done", req |-> NoReq, file |-> NoFile]

InitialApp ==
  [connected |-> TRUE, workspaceLoading |-> FALSE, workspaceSaving |-> FALSE,
   workspaceError |-> NULL, workspaceFiles |-> <<>>, workspaceCurrentPath |-> <<>>,
   workspaceEditingFile |-> NoFile, workspaceEditingContent |-> <<>>]

InitialClient ==
  /\ app = InitialApp
  /\ ops = [i \in OpIds |-> IdleOp]
  /\ editOrigin = NoReq

InitWith(F) ==
  /\ fs \in F
  /\ conns = [i \in ConnIds |-> IdleConn]
  /\ last = Ev("init", NoReq, "none", 0, "none", {})
  /\ alive = TRUE
  /\ served = 0
  /\ InitialClient

(***************************************************************************)
(* The gateway serving the requests of Requests, from a workspace that     *)
(* exists or does not yet.                                                 *)
(***************************************************************************)
Init == InitWith(InitialFs)

NextOn(R) ==
  \/ \E req \in R : NotMine(req, PlanOf[req])
  \/ \E req \in R : Unauthorized(req, PlanOf[req])
  \/ \E req \in R : ForbiddenDir(req, PlanOf[req], EnsureRoot(fs))
  \/ \E req \in R : List(req, PlanOf[req], EnsureRoot(fs))
  \/ \E req \in R : DecodeThrows(req, PlanOf[req], EnsureRoot(fs))
  \/ \E req \in R : ForbiddenFile(req, PlanOf[req], EnsureRoot(fs))
  \/ \E req \in R : DownloadMissing(req, PlanOf[req], EnsureRoot(fs))
  \/ \E req \in R : DownloadHeaderThrows(req, PlanOf[req], EnsureRoot(fs))
  \/ \E req \in R : Download(req, PlanOf[req], EnsureRoot(fs))
  \/ \E req \in R : Delete(req, PlanOf[req], EnsureRoot(fs))
  \/ \E req \in R : TextRead(req, PlanOf[req], EnsureRoot(fs))
  \/ \E req \in R : TextWrite(req, PlanOf[req], EnsureRoot(fs))
  \/ \E req \in R : UploadNoBoundary(req, PlanOf[req], EnsureRoot(fs))
  \/ \E req \in R : Upload(req, PlanOf[req], EnsureRoot(fs))
  \/ \E req \in R : FallThrough(req, PlanOf[req], EnsureRoot(fs))
  \/ \E i \in ConnIds : OnData(i)
  \/ \E i \in ConnIds : OnEndText(i)
  \/ \E i \in ConnIds : OnEndUpload(i)
  \/ \E i \in ConnIds : Abort(i)
  \/ \E i \in ConnIds : Stream(i)

Next == NextOn(Requests)

Spec == Init /\ [][Next]_vars

(***************************************************************************)
(* The gateway serving the requests of CoreRequests.                       *)
(***************************************************************************)
NextCore == NextOn(CoreRequests)

SpecCore == Init /\ [][NextCore]_vars

(***************************************************************************)
(* The UI client: loadWorkspace's comparator and sort (lines 26-30).       *)
(***************************************************************************)
IsLower(c) == c >= 97 /\ c <= 122

IsUpper(c) == c >= 65 /\ c <= 90

IsDigit(c) == c >= 48 /\ c <= 57

\* the primary weight of a character in the collation localeCompare uses:
\* punctuation, then digits, then letters without regard to case, then the
\* characters beyond ASCII
Primary(c) ==
  IF IsLower(c) THEN 1000 + (c - 97)
  ELSE IF IsUpper(c) THEN 1000 + (c - 65)
  ELSE IF IsDigit(c) THEN 500 + (c - 48)
  ELSE IF c > 127 THEN 2000 + c
  ELSE c

\* the case weight: a lowercase letter sorts before its uppercase
CaseWeight(c) == IF IsUpper(c) THEN 1 ELSE 0

RECURSIVE SeqCompare(_, _)
\* -1, 0 or 1: the order of two sequences of weights
SeqCompare(x, y) ==
  IF x = <<>> THEN (IF y = <<>> THEN 0 ELSE -1)
  ELSE IF y = <<>> THEN 1
  ELSE IF x[1] < y[1] THEN -1
  ELSE IF x[1] > y[1] THEN 1
  ELSE SeqCompare(Tail(x), Tail(y))

PrimaryKey(s) == [i \in 1..Len(s) |-> Primary(s[i])]

CaseKey(s) == [i \in 1..Len(s) |-> CaseWeight(s[i])]

\* the order by primary weights, ties broken by case
TieBreak(primary, a, b) ==
  IF primary # 0 THEN primary ELSE SeqCompare(CaseKey(a), CaseKey(b))

\* a.localeCompare(b)
LocaleCompare(a, b) == TieBreak(SeqCompare(PrimaryKey(a), PrimaryKey(b)), a, b)

\* a comparator without the directories-first rule
CompareNames(a, b) == LocaleCompare(a.name, b.name)

\* lines 27-29
CompareFiles(a, b) ==
  IF a.isDirectory /\ ~b.isDirectory THEN -1
  ELSE IF ~a.isDirectory /\ b.isDirectory THEN 1
  ELSE LocaleCompare(a.name, b.name)

RECURSIVE InsertFile(_, _)
InsertFile(e, sorted) ==
  IF sorted = <<>> THEN <<e>>
  ELSE IF CompareFiles(e, Head(sorted)) < 0 THEN <<e>> \o sorted
  ELSE <<Head(sorted)>> \o InsertFile(e, Tail(sorted))

RECURSIVE SortFiles(_)
\* files.sort(comparator): Array.prototype.sort is stable
SortFiles(files) ==
  IF files = <<>> THEN <<>>
  ELSE InsertFile(files[Len(files)], SortFiles(SubSeq(files, 1, Len(files) - 1)))

(***************************************************************************)
(* The UI client: what the view lets the user start (views/login.ts).      *)
(***************************************************************************)
EditableExtensions ==
  {Str(<<"t", "x", "t">>), Str(<<"m", "d">>), Str(<<"j", "s", "o", "n">>),
   Str(<<"j", "s">>), Str(<<"t", "s">>), Str(<<"p", "y">>), Str(<<"s", "h">>),
   Str(<<"y", "m", "l">>), Str(<<"y", "a", "m", "l">>)}

\* s.toLowerCase() on ASCII
ToLowerCase(s) == [i \in 1..Len(s) |-> IF IsUpper(s[i]) THEN s[i] + 32 ELSE s[i]]

\* isEditable(name): name.split(".").pop()?.toLowerCase() is a known extension
IsEditable(name) ==
  ToLowerCase(SliceFrom(name, LastIndexOf(name, <<DOT>>) + 1)) \in EditableExtensions

\* the entries of the table, the search box left empty (lines 119-121)
ShownFiles == {app.workspaceFiles[i] : i \in 1..Len(app.workspaceFiles)}

\* renderWorkspace shows the table unless a file is being edited (line 115)
TableShown == app.workspaceEditingFile = NoFile

\* the directories the user can walk to
ClientDirs == {<<>>, N_sub}

T_edited == Str(<<"o", "k">>)

\* the FormData request of uploadToWorkspace (lines 42-51)
UploadToWorkspace(cur) ==
  Good("POST", Api(P_upload), cur, MultipartType(B_X),
       <<EncodeParts(B_X, <<FilePart(U_report, B_bytes)>>)>>)

\* a workspace with names that differ in case, one of them not editable
N_upper == Str(<<"Z", ".", "b", "i", "n">>)

ClientFs ==
  OutsideFs
    @@ (<<N_data, N_ws>> :> DirNode(0))
    @@ (<<N_data, N_ws, N_notes>> :> FileNode(Str(<<"h", "i">>), 0))
    @@ (<<N_data, N_ws, N_upper>> :> FileNode(Str(<<"z">>), 0))
    @@ (<<N_data, N_ws, N_sub>> :> DirNode(0))

\* the directories the client lists
ClientListed == {WorkspaceDir(LoadWorkspace(cur)) : cur \in ClientDirs}

\* the answers of the Directory Lister to a load: for each filesystem and
\* directory, the listings in the orders readdirSync can give; none when the
\* request is refused or readdirSync throws
Listings ==
  [f \in {ClientFs}, dir \in ClientListed |->
     IF ContainmentCheck(dir, ROOT) /\ ~ReaddirThrows(f, dir)
     THEN {ListEntries(f, dir, order) : order \in Orders(ChildNames(f, dir))}
     ELSE {}]

(***************************************************************************)
(* The UI client: the operations, one action per stretch between awaits.   *)
(***************************************************************************)
FreeOps == {i \in OpIds : ops[i].kind = "idle"}

FreeOp == MinOr(FreeOps, 0)

StartOp(kind, req, file) ==
  /\ FreeOps # {}
  /\ ops' = [ops EXCEPT ![FreeOp] = [kind |-> kind, pc |-> "fetch", req |-> req,
                                     file |-> file]]
  /\ UNCHANGED <<gateway, editOrigin>>

\* lines 17-18
BeginLoad(a) == [a EXCEPT !.workspaceLoading = TRUE, !.workspaceError = NULL]

\* lines 24-30 and 34
Loaded(a, files) ==
  [a EXCEPT !.workspaceFiles = SortFiles(files), !.workspaceLoading = FALSE]

\* a handler that swallows the failure
Ignored(a, message) == a

\* the catch blocks
Failed(a, message) == [a EXCEPT !.workspaceError = message]

\* the finally block of the operation that made the request
Finally(a, kind) ==
  IF kind = "save" THEN [a EXCEPT !.workspaceSaving = FALSE]
  ELSE [a EXCEPT !.workspaceLoading = FALSE]

FailureMessage(kind) ==
  IF kind = "upload" THEN "Upload failed"
  ELSE IF kind = "delete" THEN "Delete failed"
  ELSE IF kind = "edit" THEN "Failed to load file for editing"
  ELSE "Save failed"

\* loadWorkspace(app), lines 15-22, from the Refresh button (disabled while
\* loading)
LoadStart ==
  /\ app.connected
  /\ TableShown
  /\ ~app.workspaceLoading
  /\ app' = BeginLoad(app)
  /\ StartOp("load", LoadWorkspace(app.workspaceCurrentPath), NoFile)

\* the client keeps the listing the gateway returned, sorted: lines 23-30
\* and 34
ListedFrom(i, listings) ==
  \E files \in listings : app' = Finally(Loaded(app, files), ops[i].kind)

\* the await of loadWorkspace, called directly or after a success, answers
\* 200: lines 23-30, 34, and the finally block of the caller
LoadSucceeds(i) ==
  /\ ops[i].pc = "reload" \/ (ops[i].pc = "fetch" /\ ops[i].kind = "load")
  /\ ListedFrom(i, Listings[fs, WorkspaceDir(ops[i].req)])
  /\ ops' = [ops EXCEPT ![i] = DoneOp]
  /\ UNCHANGED <<gateway, editOrigin>>

\* it fails or answers non-OK: lines 31-34, and the finally block of the caller
LoadFails(i) ==
  /\ ops[i].pc = "reload" \/ (ops[i].pc = "fetch" /\ ops[i].kind = "load")
  /\ app' = Finally(Finally(Failed(app, "Failed to load workspace"), "load"), ops[i].kind)
  /\ ops' = [ops EXCEPT ![i] = DoneOp]
  /\ UNCHANGED <<gateway, editOrigin>>

\* `await loadWorkspace(app)` of operation i, on the state a its success left:
\* loadWorkspace returns at once when the app is not connected
Reload(i, a) ==
  IF a.connected
  THEN /\ app' = BeginLoad(a)
       /\ ops' = [ops EXCEPT ![i].pc = "reload",
                             ![i].req = LoadWorkspace(a.workspaceCurrentPath)]
  ELSE /\ app' = Finally(a, ops[i].kind)
       /\ ops' = [ops EXCEPT ![i] = DoneOp]

\* uploadToWorkspace, lines 38-51
UploadStart ==
  /\ app.connected
  /\ TableShown
  /\ app' = [app EXCEPT !.workspaceLoading = TRUE]
  /\ StartOp("upload", UploadToWorkspace(app.workspaceCurrentPath), NoFile)

\* deleteFromWorkspace, lines 68-75
DeleteStart(file) ==
  /\ app.connected
  /\ TableShown
  /\ app' = [app EXCEPT !.workspaceLoading = TRUE]
  /\ StartOp("delete", DeleteFromWorkspace(app.workspaceCurrentPath, file.name), NoFile)

\* the upload or delete request answers 200: lines 53, 77
ChangeSucceeds(i) ==
  /\ ops[i].pc = "fetch"
  /\ ops[i].kind \in {"upload", "delete"}
  /\ Reload(i, app)
  /\ UNCHANGED <<gateway, editOrigin>>

\* a request other than a load fails or answers non-OK: the catch and
\* finally blocks
RequestFails(i) ==
  /\ ops[i].pc = "fetch"
  /\ ops[i].kind \in {"upload", "delete", "edit", "save"}
  /\ app' = Finally(Failed(app, FailureMessage(ops[i].kind)), ops[i].kind)
  /\ ops' = [ops EXCEPT ![i] = DoneOp]
  /\ UNCHANGED <<gateway, editOrigin>>

\* editInWorkspace, lines 85-92, from the Edit button of an editable file
EditStart(file) ==
  /\ app.connected
  /\ TableShown
  /\ ~file.isDirectory
  /\ IsEditable(file.name)
  /\ app' = [app EXCEPT !.workspaceLoading = TRUE]
  /\ StartOp("edit", EditInWorkspace(app.workspaceCurrentPath, file.name), file)

\* the answer the gateway gives to the Text Read of operation i
EditAnswer(i) ==
  TextReadResponse(ops[i].req, fs, ActualFilePath(ops[i].req), WorkspaceDir(ops[i].req))

\* lines 93-95, 99
EditSucceeds(i) ==
  /\ ops[i].pc = "fetch"
  /\ ops[i].kind = "edit"
  /\ EditAnswer(i).status = 200
  /\ app' = [app EXCEPT !.workspaceEditingContent = EditAnswer(i).text,
                        !.workspaceEditingFile = ops[i].file,
                        !.workspaceLoading = FALSE]
  /\ editOrigin' = ops[i].req
  /\ ops' = [ops EXCEPT ![i] = DoneOp]
  /\ UNCHANGED gateway

\* saveInWorkspace, lines 103-113, from the Save button (disabled while saving)
SaveStart ==
  /\ app.connected
  /\ app.workspaceEditingFile # NoFile
  /\ ~app.workspaceSaving
  /\ app' = [app EXCEPT !.workspaceSaving = TRUE]
  /\ StartOp("save",
             SaveInWorkspace(app.workspaceCurrentPath, app.workspaceEditingFile.name,
                             app.workspaceEditingContent),
             app.workspaceEditingFile)

\* lines 114-117
SaveSucceeds(i) ==
  /\ ops[i].pc = "fetch"
  /\ ops[i].kind = "save"
  /\ Reload(i, [app EXCEPT !.workspaceEditingFile = NoFile,
                           !.workspaceEditingContent = <<>>])
  /\ UNCHANGED <<gateway, editOrigin>>

\* onPathChange: the user walks to another directory, by the root breadcrumb
\* or by the row of a directory of the table
ChangePath(p) ==
  /\ TableShown
  /\ p # app.workspaceCurrentPath
  /\ \/ p = <<>>
     \/ \E file \in ShownFiles :
          file.isDirectory /\ p = FullPath(app.workspaceCurrentPath, file.name)
  /\ app' = [app EXCEPT !.workspaceCurrentPath = p]
  /\ UNCHANGED <<gateway, ops, editOrigin>>

\* onEditContentChange: the user types in the editor
EditContent(c) ==
  /\ app.workspaceEditingFile # NoFile
  /\ c # app.workspaceEditingContent
  /\ app' = [app EXCEPT !.workspaceEditingContent = c]
  /\ UNCHANGED <<gateway, ops, editOrigin>>

InitClient == InitWith({ClientFs})

NextClient ==
  \/ LoadStart
  \/ \E i \in OpIds : LoadSucceeds(i)
  \/ \E i \in OpIds : LoadFails(i)
  \/ UploadStart
  \/ \E file \in ShownFiles : DeleteStart(file)
  \/ \E i \in OpIds : ChangeSucceeds(i)
  \/ \E i \in OpIds : RequestFails(i)
  \/ \E file \in ShownFiles : EditStart(file)
  \/ \E i \in OpIds : EditSucceeds(i)
  \/ SaveStart
  \/ \E i \in OpIds : SaveSucceeds(i)
  \/ \E p \in ClientDirs : ChangePath(p)
  \/ \E c \in {T_edited} : EditContent(c)

SpecClient == InitClient /\ [][NextClient]_vars

(***************************************************************************)
(* The properties of the gateway.                                          *)
(***************************************************************************)
\* the path p is the root or lies under it, segment by segment
Inside(p) == IsPrefixSeq(Segments(ROOT), Segments(p))

\* a handler step that served req
Served(req) == served' = served + 1 /\ last'.req = req

\* the paths the handler computed for the request of the last event
LastPlan == PlanOf[last.req]

\* C1 (path containment): every path that list, download, delete, Text Read
\* and Text Write hand to the filesystem is the workspace root or a
\* descendant of it by path segments; a sibling whose name starts with the
\* root's name is never accessed.
PathContainment ==
  last.ev \in {"list", "download", "downloadOpen", "downloadStream", "delete",
               "textRead", "textWriteOpen", "textWriteEnd"}
    => \A p \in last.touched : Inside(p)

\* C2 (upload containment): every file Multipart Ingest writes is a
\* descendant of the workspace root, whatever the declared file name.
UploadContainment ==
  last.ev = "uploadEnd"
    => \A i \in 1..Len(last.written) :
         Inside(last.written[i]) /\ Segments(last.written[i]) # Segments(ROOT)

\* C3 (authorization ordering): a request under /api/workspace whose
\* credentials the Auth Authority rejects is answered 401 Unauthorized, and
\* serving it performs no filesystem operation (the root is not created) and
\* registers nothing that would perform one later.
AuthorizationOrdering ==
  [][\A req \in AllRequests :
       (/\ Served(req)
        /\ StartsWith(req.pathname, API)
        /\ ~AuthorityAccepts(Token(req)))
       => (/\ last'.status = 401
           /\ last'.json = "Unauthorized"
           /\ last'.handled = "true"
           /\ last'.touched = {}
           /\ fs' = fs
           /\ conns' = conns)]_vars

\* an unauthorized request was answered 401 on a deployment whose root does
\* not exist, and the root still does not exist
UnauthorizedLeftNoRoot ==
  /\ last.ev = "unauthorized"
  /\ last.status = 401
  /\ StartsWith(last.req.pathname, API)
  /\ ~ExistsSync(fs, ROOT)

RECURSIVE Flatten(_)
Flatten(chunks) == IF chunks = <<>> THEN <<>> ELSE Head(chunks) \o Flatten(Tail(chunks))

\* C4 (text round-trip): after a Text Write of the UTF-8 string C, delivered
\* in any chunks, the file holds the bytes of C and a Text Read of the file
\* returns C.
TextRoundTrip ==
  (last.ev = "textWriteEnd" /\ last.status = 200)
    => /\ ReadFileSync(fs, LastPlan.actualFilePath) = Flatten(last.req.chunks)
       /\ TextReadResponse(last.req, fs, LastPlan.actualFilePath, LastPlan.dir).text
            = Utf8Decode(Flatten(last.req.chunks))

\* C5 (multipart round-trip): after the upload of a well-formed body, every
\* file part's name in the target directory holds exactly the part's payload.
MultipartRoundTrip ==
  \A parts \in UploadCases :
    (last.ev = "uploadEnd" /\ last.status = 200 /\ last.req = UploadOf(parts))
      => \A i \in 1..Len(parts) :
           /\ ExistsSync(fs, PathJoin(LastPlan.dir, parts[i].fileName))
           /\ ~IsDirectory(fs, PathJoin(LastPlan.dir, parts[i].fileName))
           /\ ReadFileSync(fs, PathJoin(LastPlan.dir, parts[i].fileName)) = parts[i].content

\* the names a listing of the directory with segments dirKey may return
ListedNames(f, dirKey) ==
  {ListEntries(f, JoinSegments(dirKey), order)[i].name :
     order \in Orders(NamesUnder(f, dirKey)),
     i \in 1..Cardinality({n \in NamesUnder(f, dirKey) : n[1] # DOT})}

\* what a Delete of the directory with segments top must leave behind
RemovedBelow(top, before, after) ==
  /\ \A k \in DOMAIN after : ~IsPrefixSeq(top, k)
  /\ \A k \in DOMAIN before :
       ~IsPrefixSeq(top, k) => k \in DOMAIN after /\ after[k] = before[k]
  /\ top[Len(top)] \notin ListedNames(after, Parent(top))

\* C6 (recursive delete): a Delete whose target is a directory answers
\* 200 {ok:true}; afterwards the directory and everything under it is gone, a
\* listing of its parent does not hold its name, and every entry outside the
\* subtree is as it was.
RecursiveDelete ==
  [][\A req \in AllRequests :
       (/\ Served(req)
        /\ last'.ev = "delete"
        /\ ExistsSync(fs, PlanOf[req].filePath)
        /\ IsDirectory(fs, PlanOf[req].filePath))
       => (/\ last'.status = 200
           /\ last'.json = "ok"
           /\ RemovedBelow(Segments(PlanOf[req].filePath), fs, fs'))]_vars

\* the directory sub was deleted: it and its nested entries are gone, its
\* sibling notes.md is still there
SubtreeDeleted ==
  /\ last.ev = "delete"
  /\ last.status = 200
  /\ LastPlan.filePath = JoinSegments(<<N_data, N_ws, N_sub>>)
  /\ <<N_data, N_ws, N_sub>> \notin DOMAIN fs
  /\ <<N_data, N_ws, N_sub, N_text, N_g>> \notin DOMAIN fs
  /\ <<N_data, N_ws, N_notes>> \in DOMAIN fs

\* the filesystem after is the filesystem before, but for a root created
\* because it was missing
SameButRoot(before, after) ==
  /\ \A k \in DOMAIN before : k \in DOMAIN after /\ after[k] = before[k]
  /\ \A k \in DOMAIN after \ DOMAIN before :
       k \in Ancestors(Segments(ROOT)) /\ after[k].isDirectory

\* a Delete was served just before this one, for the same request
Repeats(req) == last.ev = "delete" /\ last.req = req

\* C7 (idempotent delete), original statement: a Delete of a path that does
\* not exist answers 200 {ok:true} and leaves the filesystem unchanged, and
\* the same Delete issued again gives the same response and filesystem.
IdempotentDeleteUnchanged ==
  [][\A req \in AllRequests :
       (Served(req) /\ last'.ev = "delete")
       => /\ ~ExistsSync(fs, PlanOf[req].filePath)
               => (last'.status = 200 /\ last'.json = "ok" /\ fs' = fs)
          /\ Repeats(req)
               => (last'.status = last.status /\ last'.json = last.json /\ fs' = fs)]_vars

\* C7 (idempotent delete), as the handler has it: a Delete of a path that
\* does not exist answers 200 {ok:true} and changes no entry of the
\* filesystem, adding only the workspace root when that was missing; the same
\* Delete issued again gives the same response and leaves the filesystem as
\* the first left it.
IdempotentDelete ==
  [][\A req \in AllRequests :
       (Served(req) /\ last'.ev = "delete")
       => /\ ~ExistsSync(fs, PlanOf[req].filePath)
               => (last'.status = 200 /\ last'.json = "ok" /\ SameButRoot(fs, fs'))
          /\ Repeats(req)
               => (last'.status = last.status /\ last'.json = last.json /\ fs' = fs)]_vars

\* a Delete of the missing path was answered 200 {ok:true} in a used
\* workspace, which is as it was at start
MissingDeleted ==
  /\ last.ev = "delete"
  /\ last.status = 200
  /\ last.json = "ok"
  /\ LastPlan.filePath = JoinSegments(<<N_data, N_ws, Str(<<"m", "i", "s", "s", "i", "n", "g">>)>>)
  /\ fs = OutsideFs @@ WorkspaceFs

\* the File Entry of the child name of the directory with segments dirKey
EntryFor(f, dirKey, name) ==
  [name |-> name,
   size |-> StatSize(f[Append(dirKey, name)]),
   mtime |-> f[Append(dirKey, name)].mtime,
   isDirectory |-> f[Append(dirKey, name)].isDirectory]

\* the entries are one File Entry for each name of names, and nothing else
ExactlyEntries(entries, f, dirKey, names) ==
  /\ Len(entries) = Cardinality(names)
  /\ \A n \in names : \E i \in 1..Len(entries) : entries[i] = EntryFor(f, dirKey, n)
  /\ \A i \in 1..Len(entries) : entries[i].name \in names

\* the filesystem without the hidden children of the directory
WithoutHidden(f, dirKey) ==
  Without(f, {k \in DOMAIN f : k # <<>> /\ Parent(k) = dirKey /\ k[Len(k)][1] = DOT})

\* C8 (listing exclusion): a list response holds exactly one File Entry
\* {name, size, mtime, isDirectory} for each immediate child whose name does
\* not begin with "." and none for a child whose name does; it is a listing
\* of the directory with its hidden children taken away.
ListingExclusion ==
  (last.ev = "list" /\ last.status = 200)
    => /\ ExactlyEntries(last.entries, fs, Segments(LastPlan.dir),
                         {n \in NamesUnder(fs, Segments(LastPlan.dir)) : n[1] # DOT})
       /\ \E order \in Orders({n \in NamesUnder(fs, Segments(LastPlan.dir)) : n[1] # DOT}) :
            last.entries = ListEntries(WithoutHidden(fs, Segments(LastPlan.dir)),
                                       LastPlan.dir, order)

\* the root, which holds the hidden file .hidden, was listed: notes.md and
\* sub are in the response
HiddenNotListed ==
  /\ last.ev = "list"
  /\ last.status = 200
  /\ LastPlan.dir = ROOT
  /\ <<N_data, N_ws, N_hidden>> \in DOMAIN fs
  /\ Len(last.entries) >= 2

\* C9 (download NotFound): a download whose resolved path does not exist, or
\* exists and is a directory, is answered 404 Not Found.
DownloadNotFound ==
  (/\ last.ev \in {"download", "downloadStream"}
   /\ ReadFileThrows(fs, LastPlan.filePath))
    => (last.status = 404 /\ last.text = NOT_FOUND)

\* C10 (error propagation): list, delete, Text Read, Text Write and upload
\* end with a response, whatever the filesystem did; a Text Write to an
\* existing directory and an upload whose write fails end with 500.
ErrorPropagation ==
  /\ last.ev \in {"list", "delete", "textRead", "textWriteEnd", "uploadEnd"}
       => (last.status # 0 /\ last.json # "uncaught" /\ alive)
  /\ (last.ev = "textWriteEnd" /\ WriteFileThrows(fs, LastPlan.actualFilePath))
       => last.status = 500

\* C11 (listing a missing directory): a list of a directory that does not
\* exist is answered 404, except that the workspace root is created when it
\* is missing and lists as empty; a list creates no directory but the root.
ListMissingDirectory ==
  [][\A req \in AllRequests :
       (Served(req) /\ last'.ev = "list")
       => /\ (Segments(PlanOf[req].dir) # Segments(ROOT) /\ ~ExistsSync(fs, PlanOf[req].dir))
               => last'.status = 404
          /\ (Segments(PlanOf[req].dir) = Segments(ROOT) /\ ~ExistsSync(fs, ROOT))
               => (last'.status = 200 /\ last'.entries = <<>> /\ ExistsSync(fs', ROOT))
          /\ SameButRoot(fs, fs')]_vars

\* the content type ct names no boundary: "boundary=" is absent or is the
\* end of it
NoBoundaryDeclared(ct) ==
  \A i \in 0..(Len(ct) - Len(BOUNDARY_EQ)) :
    MatchAt(ct, BOUNDARY_EQ, i) => i + Len(BOUNDARY_EQ) = Len(ct)

\* C12 (missing boundary): an authorized POST /api/workspace/upload whose
\* content type declares no boundary is answered 400 {error}; it creates or
\* modifies no file and registers no callback that would.
MissingBoundary ==
  [][\A req \in AllRequests :
       (/\ Served(req)
        /\ AuthorityAccepts(Token(req))
        /\ req.method = "POST"
        /\ req.pathname = UPLOAD_PATH
        /\ Inside(PathJoin(ROOT, req.path))
        /\ NoBoundaryDeclared(req.contentType))
       => (/\ last'.status = 400
           /\ last'.json = "Missing boundary"
           /\ last'.handled = "true"
           /\ SameButRoot(fs, fs')
           /\ conns' = conns)]_vars

\* an upload that came with a body and a content type without boundary was
\* answered 400
BoundaryMissed ==
  /\ last.ev = "upload"
  /\ last.status = 400
  /\ last.req.contentType = U_formData
  /\ last.req.chunks # <<>>

\* the paths of the file parts of an upload into dir
FileTargets(parts, dir) ==
  {PathJoin(dir, parts[i].fileName) : i \in {j \in 1..Len(parts) : parts[j].isFile}}

\* C13 (non-file parts): a part whose headers carry no file name produces no
\* file, whatever its payload; the parts with a file name are persisted and
\* the response is 200 {ok:true}.
FieldPartsSkipped ==
  \A parts \in FieldCases :
    (last.ev = "uploadEnd" /\ last.req = UploadOf(parts))
      => /\ last.status = 200
         /\ last.json = "ok"
         /\ {last.written[i] : i \in 1..Len(last.written)} = FileTargets(parts, LastPlan.dir)
         /\ \A i \in 1..Len(parts) :
              parts[i].isFile
                => ReadFileSync(fs, PathJoin(LastPlan.dir, parts[i].fileName)) = parts[i].content

\* C14 (download): a download of an existing regular file <name> is answered
\* 200 with a Content-Disposition holding filename="<name>", the content
\* type application/octet-stream and the file's bytes as body.
DownloadDelivers ==
  (/\ last.ev \in {"download", "downloadStream"}
   /\ ~ReadFileThrows(fs, LastPlan.filePath))
    => /\ last.status = 200
       /\ Includes(last.disposition, FILENAME_EQ \o LastPlan.fileName \o <<QUOTE>>)
       /\ last.contentType = "application/octet-stream"
       /\ last.text = ReadFileSync(fs, LastPlan.filePath)

\* the row of the routing table of an authenticated request: text/ counts
\* directly after the mount point
TableRow(req) ==
  IF SubPath(req) = <<>>
  THEN IF req.method = "GET" THEN "list" ELSE "fallThrough"
  ELSE IF req.method = "GET"
  THEN IF StartsWith(SubPath(req), TEXT_PREFIX) THEN "textRead" ELSE "download"
  ELSE IF req.method = "PUT" /\ StartsWith(SubPath(req), TEXT_PREFIX) THEN "textWrite"
  ELSE IF req.method = "DELETE" THEN "delete"
  ELSE IF req.method = "POST" /\ req.pathname = UPLOAD_PATH THEN "upload"
  ELSE "fallThrough"

\* C15 (router dispatch): an authenticated request that the handler
\* dispatches is served by the operation of its row of the method x path
\* table; a GET is a Text Read exactly when text/ follows the mount point,
\* and a Download for every other non-empty name.
RouterDispatch ==
  (/\ last.handled \in {"true", "false", "threw"}
   /\ LastPlan.route \in {"list", "download", "delete", "textRead", "textWrite",
                          "upload", "fallThrough"})
    => /\ LastPlan.route = TableRow(last.req)
       /\ last.ev \in {LastPlan.route, LastPlan.route \o "Open"}

\* the directory and the name of the request resolve inside the root
ResolvesInside(req) ==
  /\ Inside(PathJoin(ROOT, req.path))
  /\ DecodeOk(SubPath(req))
  /\ Inside(PathJoin(PathJoin(ROOT, req.path), DecodeURIComponent(SubPath(req))))

\* C16 (fall-through): for an authenticated request under /api/workspace
\* that matches no row of the routing table the handler returns false, writes
\* no response, registers nothing, and changes nothing in the filesystem but
\* for the lazily created root.
FallThroughUntouched ==
  [][\A req \in AllRequests :
       (/\ Served(req)
        /\ StartsWith(req.pathname, API)
        /\ AuthorityAccepts(Token(req))
        /\ ResolvesInside(req)
        /\ TableRow(req) = "fallThrough")
       => (/\ last'.handled = "false"
           /\ last'.status = 0
           /\ conns' = conns
           /\ SameButRoot(fs, fs'))]_vars

\* connection i has completed a Text Write in this step
TextWriteCompleted(i) ==
  /\ conns[i].state = "receiving"
  /\ conns[i].kind = "text"
  /\ conns[i].pending = <<>>
  /\ last'.ev = "textWriteEnd"
  /\ conns'[i].state = "idle"

\* all of g but the node at path t is as it was in f
SameBut(f, g, t) ==
  /\ \A k \in DOMAIN f \ {Segments(t)} : k \in DOMAIN g /\ g[k] = f[k]
  /\ \A k \in DOMAIN g \ {Segments(t)} : k \in DOMAIN f

\* C17 (full overwrite): when a Text Write with the UTF-8 body B is answered
\* 200 the file holds exactly the bytes of B, whether it existed or not, and
\* nothing else has changed; when it fails because the parent directory is
\* missing, nothing is created.
FullOverwrite ==
  [][\A i \in ConnIds :
       (TextWriteCompleted(i) /\ WellFormedUtf8(Flatten(conns[i].req.chunks)))
       => IF last'.status = 200
          THEN /\ ReadFileSync(fs', conns[i].target) = Flatten(conns[i].req.chunks)
               /\ SameBut(fs, fs', conns[i].target)
          ELSE fs' = fs]_vars

\* the request with its token moved to the other channel
OtherChannel(req) == [req EXCEPT !.bearer = req.qtoken, !.qtoken = req.bearer]

OneChannel(req) == (req.bearer = NULL) # (req.qtoken = NULL)

\* C18 (credential channel equivalence): a request whose token travels in
\* one channel (Authorization header or token query parameter) passes the
\* Auth Authority the credentials that the same request with the token in the
\* other channel passes, is refused with 401 exactly when the Authority
\* rejects that token, and is otherwise dispatched to the same action on the
\* same paths.
ChannelEquivalence ==
  [][\A req \in AllRequests :
       (Served(req) /\ OneChannel(req) /\ OtherChannel(req) \in AllRequests)
       => /\ Token(OtherChannel(req)) = Token(req)
          /\ (last'.status = 401)
               = (StartsWith(req.pathname, API)
                    /\ \A t \in {req.bearer, req.qtoken} \ {NULL} : ~AuthorityAccepts(t))
          /\ PlanOf[OtherChannel(req)] = PlanOf[req]
          /\ last'.ev \in {PlanOf[OtherChannel(req)].route,
                           PlanOf[OtherChannel(req)].route \o "Open"}]_vars

\* a request with a bearer token only has been served a listing
BearerServed ==
  /\ last.req.bearer # NULL
  /\ last.req.qtoken = NULL
  /\ OtherChannel(last.req) \in CoreRequests
  /\ last.ev = "list"
  /\ last.status = 200

\* the Text Write on connection i overlaps another to the same file: one that
\* is still receiving, or one that completed since i was opened
Overlapped(i) ==
  \/ \E j \in ConnIds \ {i} :
       /\ conns[j].state = "receiving"
       /\ conns[j].kind = "text"
       /\ conns[j].target = conns[i].target
  \/ /\ last.ev = "textWriteEnd"
     /\ last.status = 200
     /\ last.written = <<conns[i].target>>

\* C19 (last write wins): when a Text Write that overlaps another Text Write
\* to the same writable file completes, it is answered 200 {ok:true} and the file
\* holds its body in full, whatever the order in which the chunks of the two
\* bodies arrived; so the file ends with the body of the write that completed
\* last.
LastWriteWins ==
  [][\A i \in ConnIds :
       (TextWriteCompleted(i) /\ Overlapped(i)
          /\ ~WriteFileThrows(fs, conns[i].target)
          /\ WellFormedUtf8(Flatten(conns[i].req.chunks)))
       => /\ last'.status = 200
          /\ last'.json = "ok"
          /\ ReadFileSync(fs', conns[i].target) = Flatten(conns[i].req.chunks)]_vars

\* the connections other than i are as they were
OthersUntouched(i) == \A j \in ConnIds \ {i} : conns'[j] = conns[j]

\* C20 (aborted transfer): a Text Write or an upload whose caller disconnects
\* before the end of its body changes nothing: opening it creates at most
\* the missing workspace root, receiving a chunk and the disconnection leave
\* the filesystem, the other transfers and the process as they were.
AbortedTransfer ==
  [][\A i \in ConnIds :
       /\ (conns[i].state = "idle" /\ conns'[i].state = "receiving")
            => (SameButRoot(fs, fs') /\ OthersUntouched(i) /\ alive' = alive)
       /\ (conns[i].state = "receiving" /\ conns'[i].state = "receiving"
             /\ conns'[i] # conns[i])
            => (fs' = fs /\ OthersUntouched(i) /\ alive' = alive /\ last' = last)
       /\ (conns[i].state = "receiving" /\ conns'[i].state = "idle"
             /\ last'.ev = "abort" /\ last'.req = conns[i].req)
            => (fs' = fs /\ OthersUntouched(i) /\ alive' = alive
                  /\ last'.status = 0)]_vars

\* the caller of a Text Write has disconnected before the end of its body,
\* and the file it named does not exist
WriteAborted ==
  /\ last.ev = "abort"
  /\ LastPlan.route = "textWrite"
  /\ last.req.chunks # <<>>
  /\ ~ExistsSync(fs, LastPlan.actualFilePath)
  /\ \A i \in ConnIds : conns[i].state = "idle"

\* GET /api/workspace/<name> for the <name> of a text request
DownloadOf(req) ==
  [req EXCEPT !.method = "GET",
              !.pathname = API \o <<SLASH>> \o StripTextPrefix(SubPath(req))]

\* C21 (uniform name decoding): the file a Text Write or a Text Read of
\* /api/workspace/text/<name> has written or read is the file that
\* GET /api/workspace/<name> and DELETE /api/workspace/<name> resolve, for
\* every encoded <name>.
UniformNameDecoding ==
  (/\ last.ev \in {"textWriteEnd", "textRead"}
   /\ last.status \in {200, 404}
   /\ StartsWith(SubPath(last.req), TEXT_PREFIX)
   /\ DecodeOk(SubPath(last.req)))
    => Segments(LastPlan.actualFilePath) = Segments(FilePath(DownloadOf(last.req)))

\* the path the handler resolves for the <name> of a request
ResolvedPath(plan) ==
  IF plan.route \in {"textRead", "textWrite"} THEN plan.actualFilePath ELSE plan.filePath

\* C22 (end-to-end addressing): a download, delete, edit or save request that
\* the UI client builds for an entry name of its current directory cur is
\* resolved by the handler to root/cur/name, the path the listing described.
EndToEndAddressing ==
  [][\A t \in ClientTargets : \A req \in ClientOps(t[1], t[2]) :
       (Served(req) /\ ExistsSync(fs, PathJoin(PathJoin(ROOT, t[1]), t[2])))
       => Segments(ResolvedPath(PlanOf[req]))
            = Segments(ROOT) \o Segments(t[1]) \o <<t[2]>>]_vars

\* C23 (root preservation): after a Delete whose resolved path lies in the
\* workspace the root still exists, and whatever was removed was a proper
\* descendant of the root.
RootPreserved ==
  [][\A req \in AllRequests :
       (Served(req) /\ PlanOf[req].route = "delete" /\ Inside(PlanOf[req].filePath))
       => /\ ExistsSync(fs', ROOT)
          /\ \A k \in DOMAIN fs \ DOMAIN fs' :
               IsPrefixSeq(Segments(ROOT), k) /\ k # Segments(ROOT)]_vars

(***************************************************************************)
(* The properties of the UI client.                                        *)
(***************************************************************************)
\* operation i has a request in flight
InFlight(i) == ops[i].pc \in {"fetch", "reload"}

\* the request in flight of operation i is one of load, upload, delete, edit
\* (the reload after a successful change or save is a load)
LoadingRequest(i) ==
  InFlight(i) /\ (ops[i].pc = "reload" \/ ops[i].kind \in {"load", "upload", "delete", "edit"})

SavingRequest(i) == ops[i].pc = "fetch" /\ ops[i].kind = "save"

\* C24: workspaceLoading is true whenever a load, upload, delete or edit
\* operation has a request in flight, workspaceSaving whenever a save has, and
\* both are false once every started operation has finished
LoadingFlag ==
  /\ (\E i \in OpIds : LoadingRequest(i)) => app.workspaceLoading
  /\ (\E i \in OpIds : SavingRequest(i)) => app.workspaceSaving
  /\ (\A i \in OpIds : ~InFlight(i)) => (~app.workspaceLoading /\ ~app.workspaceSaving)

\* the editor holds what the user typed or what the read of editOrigin returned,
\* and editOrigin is a read of the file named by workspaceEditingFile
SessionOfFile(a, origin) ==
  a.workspaceEditingFile # NoFile
  => /\ \E cur \in ClientDirs : origin = EditInWorkspace(cur, a.workspaceEditingFile.name)
     /\ \/ a.workspaceEditingContent = T_edited
        \/ a.workspaceEditingContent
             = TextReadResponse(origin, fs, ActualFilePath(origin), WorkspaceDir(origin)).text

\* operation i starts as a save at this step
SaveStarts(i) == ops[i].kind = "idle" /\ ops'[i].kind = "save"

\* C25: in every interleaving of edits, directory changes and saves, the
\* content of the editor was read from the file named by workspaceEditingFile,
\* and a save writes to the server path the content was read from
EditingSession ==
  [][/\ SessionOfFile(app', editOrigin')
     /\ \A i \in OpIds :
          SaveStarts(i) => ActualFilePath(ops'[i].req) = ActualFilePath(editOrigin)]_vars

\* the request of operation i fails or answers non-OK at this step
FailureStep(i) == LoadFails(i) \/ RequestFails(i)

\* the editing session
Session(a) == <<a.workspaceEditingFile, a.workspaceEditingContent>>

\* an operation issues a request at this step
Issues(j) == ops'[j].pc \in {"fetch", "reload"} /\ ops'[j] # ops[j]

\* C26: when the request of a client operation fails or answers non-OK,
\* workspaceError is set to a non-null message, the operation ends and no
\* request is issued; a failed save leaves the editing session unchanged, and
\* a save clears the session at its success only
FailureHandling ==
  [][\A i \in OpIds :
       /\ FailureStep(i)
            => /\ app'.workspaceError # NULL
               /\ ops'[i].pc = "done"
               /\ \A j \in OpIds : ~Issues(j)
               /\ Session(app') = Session(app)
       /\ (SavingRequest(i) /\ ~SavingRequest(i)' /\ app.workspaceEditingFile # NoFile)
            => (Session(app') = <<NoFile, <<>>>> <=> SaveSucceeds(i))]_vars

\* a save has failed: the error is shown and the editor is still open
SaveFailed ==
  /\ app.workspaceError = "Save failed"
  /\ app.workspaceEditingFile # NoFile
  /\ app.workspaceEditingContent = T_edited
  /\ ~app.workspaceSaving

\* the entries of a sequence of files
EntriesOf(files) == {files[k] : k \in 1..Len(files)}

\* the listings the gateway can return for the load of operation i
ReturnedTo(i) == Listings[fs, WorkspaceDir(ops[i].req)]

\* files holds the entries of one of the listings, each once (names are unique)
PermutationOf(files, listings) ==
  \E returned \in listings :
    Len(files) = Len(returned) /\ EntriesOf(files) = EntriesOf(returned)

\* the load of operation i, direct or after a success, ends at this step
\* without a failure
LoadReturns(i) ==
  /\ ops[i].pc = "reload" \/ (ops[i].pc = "fetch" /\ ops[i].kind = "load")
  /\ ops'[i].pc = "done"
  /\ ~LoadFails(i)

\* every directory precedes every non-directory
DirectoriesFirst(files) ==
  \A p, q \in 1..Len(files) :
    (files[p].isDirectory /\ ~files[q].isDirectory) => p < q

\* within the directories and within the non-directories, names ascend in
\* the order of localeCompare
NamesAscend(files) ==
  \A p, q \in 1..Len(files) :
    (p < q /\ files[p].isDirectory = files[q].isDirectory)
    => LocaleCompare(files[p].name, files[q].name) <= 0

\* C27: after every successful loadWorkspace, workspaceFiles is a permutation
\* of the entries the server returned, with every directory before every
\* non-directory and, within each group, the names in ascending order,
\* whatever order the server returned them in
ClientOrdering ==
  [][\A i \in OpIds :
       LoadReturns(i)
       => /\ PermutationOf(app'.workspaceFiles, ReturnedTo(i))
          /\ DirectoriesFirst(app'.workspaceFiles)
          /\ NamesAscend(app'.workspaceFiles)]_vars

\* a load of the root has succeeded: the directory comes first and notes.md
\* precedes Z.bin, which no readdirSync order by code units gives
Resorted ==
  /\ Len(app.workspaceFiles) = 3
  /\ app.workspaceFiles[1].isDirectory
  /\ app.workspaceFiles[2].name = N_notes
  /\ app.workspaceFiles[3].name = N_upper
  /\ \E i \in OpIds : ops[i].kind = "done"

============================================================================
